---- MODULE Spec2Model ----
(***************************************************************************)
(* Model of scripts/eth_cassandra_streaming.py: the checkpointed batch     *)
(* ingestion of blocks, transactions, traces and logs into Cassandra.      *)
(*                                                                         *)
(* One process (main) runs at a time.  A run resolves the checkpoint,      *)
(* walks the block range in windows of args.batch_size, exports each       *)
(* window from the chain client, and hands each table's rows to            *)
(* cassandra_ingest.  The store outlives the process: a run may die        *)
(* (Crash) or abort, and a later run (Restart) sees what was written.      *)
(*                                                                         *)
(* Data abstraction: a row is identified by the block it belongs to.       *)
(* Every block yields one block row and one trace row; a block for which   *)
(* HasTx holds yields one transaction row and one log row as well.         *)
(***************************************************************************)
EXTENDS Integers, Sequences, FiniteSets

(* ------------------------------ bounds --------------------------------- *)

\* highest block number of the chain (block ids are 0..MaxBlock)
MaxBlock == 3
\* largest args.batch_size tried (the window size; the code's default is 10)
MaxBatch == 3
\* processes started one after the other against the same keyspace
MaxRuns == 2
\* BLOCK_BUCKET_SIZE is 1_000 in the source; scaled so that several bucket
\* groups occur within 0..MaxBlock
BLOCK_BUCKET_SIZE == 2
\* retry_thsh of cassandra_ingest is 1000 in the source; scaled
retry_thsh == 2
\* highest bucket group of an arbitrary table state (SpecResolve)
MaxGroup == 2
\* most rows of an arbitrary table state (SpecResolve)
MaxRows == 3

(* ----------------------------- constants ------------------------------- *)

\* Python's None where the code has Optional[int]; block ids are >= 0
None == -1
TX_HASH_PREFIX_LEN == 5

BlockIds == 0..MaxBlock
Tables == {"log", "trace", "transaction", "block"}

Min(a, b) == IF a <= b THEN a ELSE b
Max(S) == CHOOSE x \in S : \A y \in S : y <= x

\* ghost counters saturate here; no run of the code as modelled reaches it
GhostCap == (MaxBatch + 2) * (retry_thsh + 2)
Bump(n) == Min(n + 1, GhostCap)

VARIABLES
    \* ---- the store (outlives the process)
    store,           \* table -> set of rows
    configuration,   \* rows of the configuration table
    \* ---- main()
    args,            \* parsed command line
    pc,              \* position of main
    last_ingested_block,
    start_block,
    end_block,
    block_id,        \* loop variable of the window loop
    current_end_block,
    items,           \* the window's exported items
    exit_code,
    \* ---- cassandra_ingest()
    wpc,             \* position inside cassandra_ingest ("idle": not in it)
    wtable,          \* table of the current (or last) write call
    parameters,      \* rows of the batch, a sequence
    ctr,
    results,         \* success flags of the last concurrent pass
    i,               \* index of the row being retried
    \* ---- history, for stating properties
    runs,            \* number of processes started so far
    windows,         \* windows entered by the current run
    first_run,       \* [start, end] of the first run's range, or None
    resumed,         \* every later run was started without -s
    wresult,         \* outcome of the last write call
    attempts,        \* store operations of the current write call
    streak,          \* failed operations since the last successful one
    sleeps,          \* backoff sleeps of the current write call
    last_failed,     \* indices whose latest write attempt failed
    retried,         \* indices executed individually since the last pass
    raised,          \* the exception that left cassandra_ingest (the ordinal
                     \* of the store operation that threw it), 0 if none
    fatal,           \* a write call of the current run raised
    after_fatal,     \* ... and a store operation or extraction followed
    \* ---- the CSV exporter (eth_csv_export.py), a program of its own
    xpc,             \* position of the exporter's main ("idle": not running)
    block_list,      \* the formatted items waiting for write_csv
    tx_list,
    trace_list,
    logs_list,
    csv_files,       \* the rows written by write_csv, per kind of file
    xargs,           \* the exporter's parsed command line
    xexit_code,      \* the exporter's exit code, None while it runs
    xstart_block,    \* start_block, end_block, block_id and block_range of
    xend_block,      \* the exporter's main
    xblock_id,
    xblock_range,
    xwindows,        \* history: the windows extracted by the exporter
    xdirs,           \* the directories made by the exporter
    xfiles,          \* the files below args.dir
    \* ---- the global BLOCK_BUCKET_SIZE of the script that runs
    bucket_size,
    \* ---- the bulk ingest (eth_ingest.py), a program of its own
    ipc,             \* position of its main ("idle": not running)
    iargs,           \* its parsed command line
    tables_to_fill,
    inext,           \* index of the entry import_data is at
    ikeyspace,       \* the tables of its keyspace
    imports,         \* history: the imports started, in order
    queries,         \* history: the trace queries of import_receipts
    requested,       \* history: the hashes whose receipts were requested
    iexit_code

storeVars == <<store, configuration>>
mainVars == <<args, pc, last_ingested_block, start_block, end_block,
              block_id, current_end_block, items, exit_code>>
writeVars == <<wpc, wtable, parameters, ctr, results, i>>
histRun == <<runs, windows, first_run, resumed, fatal, after_fatal>>
histWrite == <<wresult, attempts, streak, sleeps, last_failed, retried,
               raised>>
exportVars == <<xargs, xexit_code, xstart_block, xend_block, xblock_id,
                xblock_range, xwindows, xdirs, xfiles>>
csvVars == <<xpc, block_list, tx_list, trace_list, logs_list, csv_files,
             exportVars>>
globals == <<bucket_size>>
ingestVars == <<ipc, iargs, tables_to_fill, inext, ikeyspace, imports,
                queries, requested, iexit_code>>
vars == <<storeVars, mainVars, writeVars, histRun, histWrite, csvVars,
          globals, ingestVars>>


(* ------------------------------- values -------------------------------- *)

\* Python's None as the value of a field of an item
Null == [kind |-> "None"]
\* cassandra.query.UNSET_VALUE
UNSET_VALUE == [kind |-> "UNSET_VALUE"]
\* a str, by its characters
Str(text) == [kind |-> "str", text |-> text]
\* an int that may be None (block numbers are plain integers)
Num(n) == [kind |-> "int", val |-> n]
\* a list
List(elems) == [kind |-> "list", elems |-> elems]
\* a bytearray, by its bytes
Bytes(bs) == [kind |-> "bytearray", bytes |-> bs]

HexChars ==
    <<"0", "1", "2", "3", "4", "5", "6", "7", "8", "9",
      "a", "b", "c", "d", "e", "f">>
\* the value of a hexadecimal digit
HexVal(c) == CHOOSE v \in 0..15 : HexChars[v + 1] = c
\* the 0x-prefixed string of the given digits
Hex(digits) == Str(<<"0", "x">> \o digits)

\* dict operations: item.pop(f), item[f] = v
Pop(item, f) == [g \in DOMAIN item \ {f} |-> item[g]]
Put(item, f, v) == [g \in DOMAIN item \cup {f} |-> IF g = f THEN v ELSE item[g]]
\* item[new] = item.pop(old)
Rename(item, old, new) == Put(Pop(item, old), new, item[old])

(* ------------------------ the chain (extraction) ----------------------- *)

\* get_last_synced_block: the chain head reported by the client
last_synced_block == MaxBlock
\* get_last_block_yesterday: the last block of the previous day
last_block_yesterday == MaxBlock - 1

\* the synthetic chain: odd blocks hold one transaction (with one log)
HasTx(n) == n % 2 = 1

\* the numbers a..b in increasing order, as a list
Range(a, b) == [k \in 1..(b - a + 1) |-> a + k - 1]
MapSeq(s, F(_)) == [k \in 1..Len(s) |-> F(s[k])]
HasTxNumber(n) == HasTx(n)

\* hashes and addresses of the synthetic chain, told apart by their digits
BlockHash(n) == Hex(<<"b", HexChars[n + 1], "0", "0", "0", "0">>)
TxHash(n) == Hex(<<"a", HexChars[n + 1], "1", "2", "3", "4">>)
Address(n) == Hex(<<"c", HexChars[n + 1]>>)
\* the block at which the client synthesizes the fork's traces (scaled)
DaoForkBlock == 2

\* the items of ethereumetl: the fields the ingest functions touch, and of
\* the others one that may be None
RawBlock(n) ==
    [type |-> "block", number |-> n, hash |-> BlockHash(n),
     parent_hash |-> IF n = 0 THEN Hex(<<"0", "0">>) ELSE BlockHash(n - 1),
     nonce |-> Hex(<<"0", "0">>), sha3_uncles |-> Hex(<<"1", "d">>),
     logs_bloom |-> Hex(<<"0", "0">>), transactions_root |-> Hex(<<"5", "6">>),
     state_root |-> Hex(<<"d", "7">>), receipts_root |-> Hex(<<"5", "6">>),
     miner |-> Address(n), extra_data |-> Hex(<<>>),
     timestamp |-> Num(n), base_fee_per_gas |-> Null]
\* the transaction of block 3 creates a contract: it has no to_address
RawTransaction(n) ==
    [type |-> "transaction", hash |-> TxHash(n), block_number |-> n,
     block_hash |-> BlockHash(n), from_address |-> Address(n),
     to_address |-> IF n = 3 THEN Null ELSE Address(n - 1),
     input |-> Hex(<<>>), value |-> Num(n)]
\* the receipt of the transaction with the given hash; n is its block
RawReceipt(n) ==
    [type |-> "receipt", transaction_hash |-> TxHash(n), block_number |-> n,
     contract_address |-> IF n = 3 THEN Address(n) ELSE Null,
     root |-> Null, status |-> Num(1)]
RawLog(n) ==
    [type |-> "log", log_index |-> Num(0), transaction_hash |-> TxHash(n),
     block_hash |-> BlockHash(n), block_number |-> n, address |-> Address(n),
     data |-> Hex(<<>>),
     topics |-> IF n = 3 THEN List(<<>>) ELSE List(<<Hex(<<"d", "d">>)>>)]
\* the trace of block 0 is a genesis allocation, that of DaoForkBlock a
\* transfer of the fork; the others are calls of the block's transactions or
\* the block reward
RawTrace(n) ==
    [type |-> "trace", block_number |-> n,
     transaction_hash |-> IF HasTx(n) THEN TxHash(n) ELSE Null,
     from_address |-> IF n = 0 THEN Null ELSE Address(n),
     to_address |-> Address(n), input |-> IF HasTx(n) THEN Hex(<<>>) ELSE Null,
     output |-> IF HasTx(n) THEN Hex(<<>>) ELSE Null,
     trace_type |-> IF n = 0 THEN Str(<<"genesis">>)
                    ELSE IF n = DaoForkBlock THEN Str(<<"daofork">>)
                    ELSE IF HasTx(n) THEN Str(<<"call">>)
                    ELSE Str(<<"reward">>),
     trace_address |-> IF HasTx(n) THEN List(<<>>) ELSE Null,
     value |-> Num(n)]

\* EthStreamerAdapter.export_blocks_and_transactions
export_blocks(a, b) == MapSeq(Range(a, b), RawBlock)
export_transactions(a, b) ==
    MapSeq(SelectSeq(Range(a, b), HasTxNumber), RawTransaction)
\* EthStreamerAdapter.export_receipts_and_logs: the receipt and the log of
\* each transaction hash handed in
ReceiptOf(tx) == RawReceipt(CHOOSE n \in BlockIds : TxHash(n) = tx.hash)
LogOf(tx) == RawLog(CHOOSE n \in BlockIds : TxHash(n) = tx.hash)
export_receipts(txs) == MapSeq(txs, ReceiptOf)
export_logs(txs) == MapSeq(txs, LogOf)
\* (variant used to test the properties) the synthesized traces are left out
export_traces_plain(a, b, include_genesis_traces, include_daofork_traces) ==
    MapSeq(SelectSeq(Range(a, b),
                     LAMBDA n : n # 0 /\ n # DaoForkBlock), RawTrace)
\* EthStreamerAdapter.export_traces
export_traces(a, b, include_genesis_traces, include_daofork_traces) ==
    MapSeq(SelectSeq(Range(a, b),
                     LAMBDA n : /\ (n = 0 => include_genesis_traces)
                                /\ (n = DaoForkBlock => include_daofork_traces)),
           RawTrace)
\* enrich_transactions: each transaction joined with the receipt of its hash
EnrichOne(tx, receipt) ==
    [f \in DOMAIN tx \cup {"receipt_contract_address", "receipt_root",
                           "receipt_status"} |->
        CASE f = "receipt_contract_address" -> receipt.contract_address
          [] f = "receipt_root" -> receipt.root
          [] f = "receipt_status" -> receipt.status
          [] OTHER -> tx[f]]
enrich_transactions(txs, receipts) ==
    LET joined(tx) ==
            {k \in DOMAIN receipts : receipts[k].transaction_hash = tx.hash}
        matched == SelectSeq(txs, LAMBDA tx : joined(tx) # {})
    IN  [k \in DOMAIN matched |->
            EnrichOne(matched[k],
                      receipts[CHOOSE r \in joined(matched[k]) : TRUE])]

NoItems ==
    [blocks |-> <<>>, txs |-> <<>>, receipts |-> <<>>, logs |-> <<>>,
     traces |-> <<>>, enriched_txs |-> <<>>]

\* no file written yet
NoFiles == [block |-> <<>>, tx |-> <<>>, trace |-> <<>>, logs |-> <<>>]

(* --------------------------- the transformer --------------------------- *)

\* bytearray.fromhex: two hexadecimal digits make one byte
FromHex(digits) ==
    [k \in 1..(Len(digits) \div 2) |->
        16 * HexVal(digits[2 * k - 1]) + HexVal(digits[2 * k])]
\* (variant used to test the properties) the string is handed on as it is
hex_kept(hex_str) == hex_str
\* hex_to_bytearray
hex_to_bytearray(hex_str) ==
    IF hex_str # Null
    THEN Bytes(FromHex(SubSeq(hex_str.text, 3, Len(hex_str.text))))
    ELSE Null

\* the columns that hold integers when none_to_unset is reached: the floor
\* division has been applied to block_id, so it is not None
IntColumns == {"block_id", "block_id_group"}
\* (variant used to test the properties) None is handed on as it is
none_kept(row) == row
\* none_to_unset, for a dict
none_to_unset(row) ==
    [f \in DOMAIN row |->
        IF f \in IntColumns THEN row[f]
        ELSE IF row[f] = Null THEN UNSET_VALUE ELSE row[f]]

\* for elem in blob_colums: item[elem] = hex_to_bytearray(item[elem])
ConvertBlobs(item, blob_colums) ==
    [f \in DOMAIN item |->
        IF f \in blob_colums THEN hex_to_bytearray(item[f]) ELSE item[f]]

\* (variant used to test the properties) the remainder instead of the quotient
bucket_remainder(n, block_bucket_size) == n % block_bucket_size
\* (variant used to test the properties) the quotient rounded up
bucket_ceiling(n, block_bucket_size) ==
    0 - ((0 - n) \div block_bucket_size)
\* block_id // block_bucket_size, Python's floor division; block_bucket_size
\* is not 0 (that case raises, see TransformRaises)
bucket(n, block_bucket_size) ==
    IF block_bucket_size < 0
    THEN (0 - n) \div (0 - block_bucket_size)
    ELSE n \div block_bucket_size

BlockBlobColumns ==
    {"block_hash", "parent_hash", "nonce", "sha3_uncles", "logs_bloom",
     "transactions_root", "state_root", "receipts_root", "miner",
     "extra_data"}
LogBlobColumns == {"block_hash", "address", "data", "topic0", "tx_hash"}
TransactionBlobColumns ==
    {"tx_hash", "from_address", "to_address", "input", "block_hash",
     "receipt_contract_address", "receipt_root"}
TraceBlobColumns == {"tx_hash", "from_address", "to_address", "input", "output"}

\* (variant used to test the properties) the key hash is read, not popped
BlockItemKeepsHash(item, block_bucket_size) ==
    LET i1 == Rename(Pop(item, "type"), "number", "block_id")
        i2 == Put(i1, "block_id_group", bucket(i1.block_id, block_bucket_size))
        i3 == Put(i2, "block_hash", i2.hash)
    IN  ConvertBlobs(i3, BlockBlobColumns)
\* ingest_blocks, the loop body
BlockItem(item, block_bucket_size) ==
    LET i1 == Rename(Pop(item, "type"), "number", "block_id")
        i2 == Put(i1, "block_id_group", bucket(i1.block_id, block_bucket_size))
        i3 == Rename(i2, "hash", "block_hash")
    IN  ConvertBlobs(i3, BlockBlobColumns)

\* tpcs of ingest_logs and format_logs
TopicsOf(item) == IF item.topics = Null THEN <<>> ELSE item.topics.elems
\* topic0 of ingest_logs
Topic0(item, tpcs) ==
    IF "topic0" \in DOMAIN item THEN item.topic0
    ELSE IF Len(tpcs) > 0 THEN tpcs[1] ELSE Hex(<<>>)
\* ingest_logs, the loop body
LogItem(item, block_bucket_size) ==
    LET i1 == Rename(Pop(item, "type"), "transaction_hash", "tx_hash")
        i2 == Rename(i1, "block_number", "block_id")
        i3 == Put(i2, "block_id_group", bucket(i2.block_id, block_bucket_size))
        tpcs == TopicsOf(i3)
        i4 == Put(i3, "topic0", Topic0(i3, tpcs))
        i5 == Put(i4, "topics", List(MapSeq(tpcs, hex_to_bytearray)))
    IN  ConvertBlobs(i5, LogBlobColumns)

\* (variant used to test the properties) the slice taken from the start of the string
HashSliceFromStart(tx_hash, tx_hash_prefix_len) ==
    Str(SubSeq(tx_hash.text, 1, Min(Len(tx_hash.text), tx_hash_prefix_len)))
\* item["tx_hash"][slice(2, 2 + tx_hash_prefix_len)]
HashSlice(tx_hash, tx_hash_prefix_len) ==
    Str(SubSeq(tx_hash.text, 3, Min(Len(tx_hash.text), 2 + tx_hash_prefix_len)))
\* ingest_transactions, the loop body
TransactionItem(item, tx_hash_prefix_len) ==
    LET i1 == Rename(Pop(item, "type"), "hash", "tx_hash")
        i2 == Put(i1, "tx_hash_prefix", HashSlice(i1.tx_hash, tx_hash_prefix_len))
        i3 == Rename(i2, "block_number", "block_id")
    IN  ConvertBlobs(i3, TransactionBlobColumns)

\* str of a child-call index
StrOfIndex(n) ==
    IF n < 10 THEN <<HexChars[n + 1]>>
    ELSE <<HexChars[(n \div 10) + 1], HexChars[(n % 10) + 1]>>
\* (variant used to test the properties) only the first index is written
JoinFirstOnly(sep, trace_address) ==
    IF trace_address = <<>> THEN <<>> ELSE StrOfIndex(trace_address[1])
\* sep.join(map(str, trace_address))
RECURSIVE Join(_, _)
Join(sep, trace_address) ==
    IF trace_address = <<>> THEN <<>>
    ELSE IF Len(trace_address) = 1 THEN StrOfIndex(trace_address[1])
    ELSE StrOfIndex(trace_address[1]) \o <<sep>> \o Join(sep, Tail(trace_address))
\* ingest_traces, the loop body
TraceItem(item, block_bucket_size) ==
    LET i1 == Rename(Pop(item, "type"), "transaction_hash", "tx_hash")
        i2 == Rename(i1, "block_number", "block_id")
        i3 == Put(i2, "block_id_group", bucket(i2.block_id, block_bucket_size))
        i4 == Put(i3, "trace_address",
                  IF i3.trace_address # Null
                  THEN Str(Join(",", i3.trace_address.elems))
                  ELSE Null)
    IN  ConvertBlobs(i4, TraceBlobColumns)

\* ingest_blocks, per item: the row handed to cassandra_ingest
TransformBlock(item) == none_to_unset(BlockItem(item, bucket_size))
\* ingest_logs, per item
TransformLog(item) == none_to_unset(LogItem(item, bucket_size))
\* ingest_traces, per item
TransformTrace(item) == none_to_unset(TraceItem(item, bucket_size))
\* ingest_transactions, per item (no block_id_group is set there)
TransformTransaction(item) ==
    none_to_unset(TransactionItem(item, TX_HASH_PREFIX_LEN))

\* the keys the loop body of an ingest function reads from the item: a
\* missing one raises KeyError
ReadFields(tbl) ==
    CASE tbl = "block" ->
            {"type", "number", "hash"} \cup (BlockBlobColumns \ {"block_hash"})
      [] tbl = "log" ->
            {"type", "transaction_hash", "block_number", "topics"}
                \cup (LogBlobColumns \ {"topic0", "tx_hash"})
      [] tbl = "transaction" ->
            {"type", "hash", "block_number"}
                \cup (TransactionBlobColumns \ {"tx_hash"})
      [] tbl = "trace" ->
            {"type", "transaction_hash", "block_number", "trace_address"}
                \cup (TraceBlobColumns \ {"tx_hash"})
\* the items handed to the ingest function of a table
ItemsOf(tbl, it) ==
    CASE tbl = "log" -> it.logs
      [] tbl = "trace" -> it.traces
      [] tbl = "transaction" -> it.enriched_txs
      [] tbl = "block" -> it.blocks
\* the tables whose rows carry block_id_group
Bucketed == {"block", "log", "trace"}
\* block_id // block_bucket_size raises ZeroDivisionError
ZeroDivision(tbl, size) == tbl \in Bucketed /\ size = 0
\* the ingest function of the table raises: KeyError for a missing key,
\* ZeroDivisionError for a bucket size of 0
TransformRaises(tbl, it) ==
    \E k \in DOMAIN ItemsOf(tbl, it) :
        \/ ~(ReadFields(tbl) \subseteq DOMAIN ItemsOf(tbl, it)[k])
        \/ ZeroDivision(tbl, bucket_size)

(* -------------------- the CSV exporter's formatter --------------------- *)

\* the default of block_bucket_size in format_blocks, format_traces and
\* format_logs; main passes none
format_block_bucket_size == 1000
\* TX_HASH_PREFIX_LEN of eth_csv_export.py
csv_TX_HASH_PREFIX_LEN == 5

\* format_blocks, the loop body
FormatBlockItem(item, block_bucket_size) ==
    LET i1 == Rename(Pop(item, "type"), "number", "block_id")
        i2 == Put(i1, "block_id_group", bucket(i1.block_id, block_bucket_size))
    IN  Rename(i2, "hash", "block_hash")
\* format_transactions, the loop body
FormatTransactionItem(item, tx_hash_prefix_len) ==
    LET i1 == Rename(Pop(item, "type"), "hash", "tx_hash")
        i2 == Put(i1, "tx_hash_prefix", HashSlice(i1.tx_hash, tx_hash_prefix_len))
    IN  Rename(i2, "block_number", "block_id")
\* format_traces, the loop body
FormatTraceItem(item, block_bucket_size) ==
    LET i1 == Rename(Pop(item, "type"), "transaction_hash", "tx_hash")
        i2 == Rename(i1, "block_number", "block_id")
        i3 == Put(i2, "block_id_group", bucket(i2.block_id, block_bucket_size))
    IN  Put(i3, "trace_address",
            IF i3.trace_address # Null
            THEN Str(Join("|", i3.trace_address.elems))
            ELSE Null)

\* topic0 of format_logs
FormatTopic0(item, tpcs) ==
    IF "topic0" \in DOMAIN item THEN item.topic0
    ELSE IF Len(tpcs) > 0 THEN tpcs[1] ELSE Null
\* f'"{t}"'
Quoted(t) == <<"\"">> \o t.text \o <<"\"">>
\* sep.join(strs)
RECURSIVE JoinText(_, _)
JoinText(sep, strs) ==
    IF strs = <<>> THEN <<>>
    ELSE IF Len(strs) = 1 THEN strs[1]
    ELSE strs[1] \o <<sep>> \o JoinText(sep, Tail(strs))
\* format_logs, the loop body: the hexadecimal strings stay as they are
FormatLogItem(item, block_bucket_size) ==
    LET i1 == Rename(Pop(item, "type"), "transaction_hash", "tx_hash")
        i2 == Rename(i1, "block_number", "block_id")
        i3 == Put(i2, "block_id_group", bucket(i2.block_id, block_bucket_size))
        tpcs == TopicsOf(i3)
        i4 == Put(i3, "topic0", FormatTopic0(i3, tpcs))
        qt == JoinText(",", MapSeq(tpcs, Quoted))
    IN  Put(i4, "topics", Str(<<"[">> \o qt \o <<"]">>))
\* format_logs(logs), as main calls it
FormatLog(item) == FormatLogItem(item, format_block_bucket_size)
format_logs(logs) == MapSeq(logs, FormatLog)
\* format_blocks(blocks), format_transactions(enriched_txs,
\* TX_HASH_PREFIX_LEN) and format_traces(traces), as main calls them
FormatBlock(item) == FormatBlockItem(item, format_block_bucket_size)
format_blocks(blocks) == MapSeq(blocks, FormatBlock)
FormatTransaction(item) == FormatTransactionItem(item, csv_TX_HASH_PREFIX_LEN)
format_transactions(txs) == MapSeq(txs, FormatTransaction)
FormatTrace(item) == FormatTraceItem(item, format_block_bucket_size)
format_traces(traces) == MapSeq(traces, FormatTrace)

\* the keys the loop body of a format function reads from the item
FormatReadFields(tbl) ==
    CASE tbl = "block" -> {"type", "number", "hash"}
      [] tbl = "log" -> {"type", "transaction_hash", "block_number", "topics"}
      [] tbl = "transaction" -> {"type", "hash", "block_number"}
      [] tbl = "trace" ->
            {"type", "transaction_hash", "block_number", "trace_address"}
\* one of the format functions raises KeyError
FormatRaises(it) ==
    \E tbl \in Tables : \E k \in DOMAIN ItemsOf(tbl, it) :
        ~(FormatReadFields(tbl) \subseteq DOMAIN ItemsOf(tbl, it)[k])

BLOCK_HEADER ==
    {"parent_hash", "nonce", "sha3_uncles", "logs_bloom", "transactions_root",
     "state_root", "receipts_root", "miner", "difficulty", "total_difficulty",
     "size", "extra_data", "gas_limit", "gas_used", "timestamp",
     "transaction_count", "base_fee_per_gas", "block_id", "block_id_group",
     "block_hash"}
TX_HEADER ==
    {"nonce", "transaction_index", "from_address", "to_address", "value",
     "gas", "gas_price", "input", "block_timestamp", "block_hash",
     "max_fee_per_gas", "max_priority_fee_per_gas", "transaction_type",
     "receipt_cumulative_gas_used", "receipt_gas_used",
     "receipt_contract_address", "receipt_root", "receipt_status",
     "receipt_effective_gas_price", "tx_hash", "tx_hash_prefix", "block_id"}
TRACE_HEADER ==
    {"transaction_index", "from_address", "to_address", "value", "input",
     "output", "trace_type", "call_type", "reward_type", "gas", "gas_used",
     "subtraces", "trace_address", "error", "status", "trace_id",
     "trace_index", "tx_hash", "block_id", "block_id_group"}
LOGS_HEADER ==
    {"block_id_group", "block_id", "block_hash", "address", "data", "topics",
     "topic0", "tx_hash", "log_index", "transaction_index"}

\* the text csv.DictWriter writes for a value: nothing for None, str(value)
\* for the others
CsvField(v) ==
    CASE v = Null -> <<>>
      [] v.kind = "str" -> v.text
      [] v.kind = "int" -> StrOfIndex(v.val)
\* csv_writer.writerow(row) with fieldnames=header: the fields of the line,
\* by column; a column the row has no key for is written empty (the fields
\* of the items that the model leaves out are all written so)
CsvLine(row, header) ==
    [f \in header |->
        IF f \notin DOMAIN row THEN <<>>
        ELSE IF f \in IntColumns THEN StrOfIndex(row[f])
        ELSE CsvField(row[f])]
\* write_csv(filename, data, header): the lines after the header line
write_csv(data, header) == [k \in DOMAIN data |-> CsvLine(data[k], header)]

(* ------------------------- checkpoint resolver ------------------------- *)

\* SELECT block_id_group ... PER PARTITION LIMIT 1: one row per partition
PartitionGroups(T) == {row.block_id_group : row \in T}
\* (variant used to test the properties) the maximum taken without the WHERE clause
MaxBlockOfTable(T, g) == Max({row.block_id : row \in T})
\* SELECT MAX(block_id) ... WHERE block_id_group = g
MaxBlockOfGroup(T, g) ==
    Max({row.block_id : row \in {r \in T : r.block_id_group = g}})
\* (variant used to test the properties) the group of the first partition is taken
get_last_ingested_block_first_group(T) ==
    LET groups == PartitionGroups(T)
    IN  IF groups = {} THEN None
        ELSE MaxBlockOfGroup(T, CHOOSE g \in groups : \A h \in groups : g <= h)
get_last_ingested_block(T) ==
    LET groups == PartitionGroups(T)
    IN  IF groups = {} THEN None
        ELSE MaxBlockOfGroup(T, Max(groups))


(* ------------------------------- main ---------------------------------- *)

\* -s: absent or any block of the chain
StartArgs == {None} \cup BlockIds
\* -e: absent (the chain head) or a block below last_block_yesterday
EndArgs == {None} \cup (0..(last_block_yesterday - 1))
\* the command lines tried; -p is tried without -e, and -i/--info makes the
\* other options irrelevant
ArgSet ==
    {[info |-> FALSE, start_block |-> s, end_block |-> e, prev_day |-> FALSE,
      batch_size |-> w] :
        s \in StartArgs, e \in EndArgs, w \in 1..MaxBatch}
    \cup {[info |-> FALSE, start_block |-> s, end_block |-> None,
           prev_day |-> TRUE, batch_size |-> w] :
              s \in StartArgs, w \in 1..MaxBatch}
    \cup {[info |-> TRUE, start_block |-> None, end_block |-> None,
           prev_day |-> FALSE, batch_size |-> 1]}

\* the command lines a later process is started with: resuming from the
\* checkpoint or starting over from block 0, up to the chain head, or -i
RestartArgSet ==
    {a \in ArgSet : a.start_block \in {None, 0} /\ a.end_block = None
                       /\ ~a.prev_day}

IngestPhases ==
    {"ingest_logs", "ingest_traces", "ingest_transactions", "ingest_blocks"}
ExportPhases == {"export_bt", "export_rl", "export_tr", "enrich"}
Running == {"main", "loop", "count", "configuration"}
               \cup ExportPhases \cup IngestPhases
Ended == {"info", "no_work", "done", "aborted", "crashed"}

\* (variant used to test the properties) the block table is written first
NextPhaseBlocksFirst(p) ==
    CASE p = "export_bt" -> "export_rl"
      [] p = "export_rl" -> "export_tr"
      [] p = "export_tr" -> "enrich"
      [] p = "enrich" -> "ingest_blocks"
      [] p = "ingest_blocks" -> "ingest_logs"
      [] p = "ingest_logs" -> "ingest_traces"
      [] p = "ingest_traces" -> "ingest_transactions"
      [] p = "ingest_transactions" -> "count"
\* (variant used to test the properties) the block table is written before the transactions
NextPhaseBlocksBeforeTransactions(p) ==
    CASE p = "export_bt" -> "export_rl"
      [] p = "export_rl" -> "export_tr"
      [] p = "export_tr" -> "enrich"
      [] p = "enrich" -> "ingest_logs"
      [] p = "ingest_logs" -> "ingest_traces"
      [] p = "ingest_traces" -> "ingest_blocks"
      [] p = "ingest_blocks" -> "ingest_transactions"
      [] p = "ingest_transactions" -> "count"
\* (variant used to test the properties) the loop goes on without the block write
NextPhaseWithoutBlocks(p) ==
    CASE p = "export_bt" -> "export_rl"
      [] p = "export_rl" -> "export_tr"
      [] p = "export_tr" -> "enrich"
      [] p = "enrich" -> "ingest_logs"
      [] p = "ingest_logs" -> "ingest_traces"
      [] p = "ingest_traces" -> "ingest_transactions"
      [] p = "ingest_transactions" -> "count"
      [] p = "ingest_blocks" -> "count"
\* the statements of the loop body, in program order
NextPhase(p) ==
    CASE p = "export_bt" -> "export_rl"
      [] p = "export_rl" -> "export_tr"
      [] p = "export_tr" -> "enrich"
      [] p = "enrich" -> "ingest_logs"
      [] p = "ingest_logs" -> "ingest_traces"
      [] p = "ingest_traces" -> "ingest_transactions"
      [] p = "ingest_transactions" -> "ingest_blocks"
      [] p = "ingest_blocks" -> "count"

TableOf(p) ==
    CASE p = "ingest_logs" -> "log"
      [] p = "ingest_traces" -> "trace"
      [] p = "ingest_transactions" -> "transaction"
      [] p = "ingest_blocks" -> "block"

\* (variant used to test the properties) main swallows the exception and goes on
OnRaiseSwallowed(p) == NextPhase(p)
\* an exception leaving cassandra_ingest is caught nowhere in main
OnRaise(p) == "aborted"

\* (variant used to test the properties) the run resumes at the checkpoint itself
StartBlockAtCheckpoint(a, last) ==
    IF a.start_block = None
    THEN IF last # None THEN last ELSE 0
    ELSE a.start_block
\* start_block of main
StartBlock(a, last) ==
    IF a.start_block = None
    THEN IF last # None THEN last + 1 ELSE 0
    ELSE a.start_block
\* end_block of main
EndBlock(a) ==
    IF a.prev_day THEN last_block_yesterday
    ELSE IF a.end_block # None THEN a.end_block
    ELSE last_synced_block
\* (variant used to test the properties) a range of one block counts as no work
NoWorkAtEqual(s, e) == s >= e
\* if start_block > end_block: "No blocks to ingest"
NoWork(s, e) == s > e
\* (variant used to test the properties) the window's end without the clipping to end_block
CurrentEndUnclipped(b, e, w) == b + w - 1
\* current_end_block of the window starting at b
CurrentEnd(b, e, w) == Min(e, b + w - 1)
\* (variant used to test the properties) the loop variable advances by one block
RangeStepByOne(b, w) == b + 1
\* the next value of range(start_block, end_block + 1, batch_size)
RangeStep(b, w) == b + w

\* the exporter's arguments when the exporter is not the program looked at
NoExport ==
    [batch_size |-> 1, file_batch_size |-> 1, partition_batch_size |-> 1,
     start_block |-> None, end_block |-> None, prev_day |-> FALSE,
     continue_export |-> FALSE]
\* the bulk ingest is not the program looked at
IngestNotStarted ==
    /\ ipc = "idle"
    /\ iargs = [until_date |-> FALSE, table_specific |-> <<>>]
    /\ tables_to_fill = <<>>
    /\ inext = 0
    /\ ikeyspace = [t \in {"block", "transaction", "trace", "receipt",
                           "configuration"} |-> {}]
    /\ imports = <<>>
    /\ queries = <<>>
    /\ requested = {}
    /\ iexit_code = None
ExporterNotStarted ==
    /\ xargs = NoExport
    /\ xexit_code = None
    /\ xstart_block = 0
    /\ xend_block = 0
    /\ xblock_id = 0
    /\ xblock_range = <<0, 0>>
    /\ xwindows = <<>>
    /\ xdirs = {}
    /\ xfiles = {}

\* an extraction or a store operation is issued
Issue == after_fatal' = (after_fatal \/ fatal)

InitLocals ==
    /\ pc = "main"
    /\ last_ingested_block = None
    /\ start_block = 0
    /\ end_block = 0
    /\ block_id = 0
    /\ current_end_block = 0
    /\ items = NoItems
    /\ exit_code = None
    /\ wpc = "idle"
    /\ wtable = "log"
    /\ parameters = <<>>
    /\ ctr = 0
    /\ results = <<>>
    /\ i = 0
    /\ windows = <<>>
    /\ wresult = "none"
    /\ attempts = 0
    /\ streak = 0
    /\ sleeps = 0
    /\ last_failed = {}
    /\ retried = {}
    /\ raised = 0
    /\ fatal = FALSE
    /\ after_fatal = FALSE
    /\ xpc = "idle"
    /\ block_list = <<>>
    /\ tx_list = <<>>
    /\ trace_list = <<>>
    /\ logs_list = <<>>
    /\ csv_files = NoFiles
    /\ ExporterNotStarted
    /\ IngestNotStarted

\* the locals of a freshly started process
ResetLocals ==
    /\ last_ingested_block' = None
    /\ start_block' = 0
    /\ end_block' = 0
    /\ block_id' = 0
    /\ current_end_block' = 0
    /\ items' = NoItems
    /\ wpc' = "idle"
    /\ wtable' = "log"
    /\ parameters' = <<>>
    /\ ctr' = 0
    /\ results' = <<>>
    /\ i' = 0
    /\ windows' = <<>>
    /\ wresult' = "none"
    /\ attempts' = 0
    /\ streak' = 0
    /\ sleeps' = 0
    /\ last_failed' = {}
    /\ retried' = {}
    /\ raised' = 0
    /\ fatal' = FALSE
    /\ after_fatal' = FALSE

Init ==
    /\ bucket_size = BLOCK_BUCKET_SIZE
    /\ store = [t \in Tables |-> {}]
    /\ configuration = {}
    /\ args \in ArgSet
    /\ runs = 1
    /\ first_run = <<None, None>>
    /\ resumed = TRUE
    /\ InitLocals

\* main, from the connection to the store up to the window loop
MainBegin ==
    /\ pc = "main"
    /\ LET last == get_last_ingested_block(store["block"])
           s == StartBlock(args, last)
           e == EndBlock(args)
       IN  /\ last_ingested_block' = last
           /\ IF args.info
              THEN /\ pc' = "info"
                   /\ exit_code' = 0
                   /\ UNCHANGED <<start_block, end_block, block_id, first_run>>
              ELSE /\ start_block' = s
                   /\ end_block' = e
                   /\ IF NoWork(s, e)
                      THEN /\ pc' = "no_work"
                           /\ exit_code' = 0
                           /\ UNCHANGED <<block_id, first_run>>
                      ELSE /\ pc' = "loop"
                           /\ block_id' = s
                           /\ first_run' =
                                  IF runs = 1 THEN <<s, e>> ELSE first_run
                           /\ UNCHANGED exit_code
    /\ UNCHANGED <<storeVars, args, current_end_block, items, writeVars,
                   runs, windows, resumed, fatal, after_fatal, histWrite>>
    /\ UNCHANGED <<csvVars, globals, ingestVars>>

\* for block_id in range(start_block, end_block + 1, args.batch_size)
LoopNext ==
    /\ pc = "loop"
    /\ IF block_id <= end_block
       THEN /\ current_end_block' =
                   CurrentEnd(block_id, end_block, args.batch_size)
            /\ windows' = Append(windows, <<block_id, current_end_block'>>)
            /\ pc' = "export_bt"
       ELSE /\ pc' = "configuration"
            /\ UNCHANGED <<current_end_block, windows>>
    /\ UNCHANGED <<storeVars, args, last_ingested_block, start_block,
                   end_block, block_id, items, exit_code, writeVars, runs,
                   first_run, resumed, fatal, after_fatal, histWrite>>
    /\ UNCHANGED <<csvVars, globals, ingestVars>>

ExportBlocksAndTransactions ==
    /\ pc = "export_bt"
    /\ items' = [NoItems EXCEPT
                   !.blocks = export_blocks(block_id, current_end_block),
                   !.txs = export_transactions(block_id, current_end_block)]
    /\ pc' = NextPhase(pc)
    /\ Issue
    /\ UNCHANGED <<storeVars, args, last_ingested_block, start_block,
                   end_block, block_id, current_end_block, exit_code,
                   writeVars, runs, windows, first_run, resumed, fatal,
                   histWrite>>
    /\ UNCHANGED <<csvVars, globals, ingestVars>>

ExportReceiptsAndLogs ==
    /\ pc = "export_rl"
    /\ items' = [items EXCEPT !.receipts = export_receipts(items.txs),
                              !.logs = export_logs(items.txs)]
    /\ pc' = NextPhase(pc)
    /\ Issue
    /\ UNCHANGED <<storeVars, args, last_ingested_block, start_block,
                   end_block, block_id, current_end_block, exit_code,
                   writeVars, runs, windows, first_run, resumed, fatal,
                   histWrite>>
    /\ UNCHANGED <<csvVars, globals, ingestVars>>

ExportTraces ==
    /\ pc = "export_tr"
    /\ items' = [items EXCEPT
                   !.traces = export_traces(block_id, current_end_block,
                                            TRUE, TRUE)]
    /\ pc' = NextPhase(pc)
    /\ Issue
    /\ UNCHANGED <<storeVars, args, last_ingested_block, start_block,
                   end_block, block_id, current_end_block, exit_code,
                   writeVars, runs, windows, first_run, resumed, fatal,
                   histWrite>>
    /\ UNCHANGED <<csvVars, globals, ingestVars>>

\* (variant used to test the properties) the joined rows are handed on whatever their number
EnrichNeverRaises(txs, receipts) == FALSE
\* enrich_transactions of ethereumetl raises ValueError ("The number of
\* transactions is wrong") when its join has lost a transaction
EnrichRaises(txs, receipts) ==
    Len(enrich_transactions(txs, receipts)) # Len(txs)

\* enrich_transactions(txs, receipts); its exception is caught nowhere in main
Enrich ==
    /\ pc = "enrich"
    /\ IF EnrichRaises(items.txs, items.receipts)
       THEN /\ pc' = "aborted"
            /\ exit_code' = 1
            /\ UNCHANGED items
       ELSE /\ items' = [items EXCEPT
                           !.enriched_txs = enrich_transactions(items.txs,
                                                                items.receipts)]
            /\ pc' = NextPhase(pc)
            /\ UNCHANGED exit_code
    /\ UNCHANGED <<storeVars, args, last_ingested_block, start_block,
                   end_block, block_id, current_end_block,
                   writeVars, histRun, histWrite>>
    /\ UNCHANGED <<csvVars, globals, ingestVars>>

\* count += args.batch_size, the throughput report, and the loop's step
Count ==
    /\ pc = "count"
    /\ block_id' = RangeStep(block_id, args.batch_size)
    /\ pc' = "loop"
    /\ UNCHANGED <<storeVars, args, last_ingested_block, start_block,
                   end_block, current_end_block, items, exit_code,
                   writeVars, histRun, histWrite>>
    /\ UNCHANGED <<csvVars, globals, ingestVars>>


(* -------------------------- cassandra_ingest --------------------------- *)

\* the rows an ingest_* function hands to cassandra_ingest
RowsFor(tbl, it) ==
    CASE tbl = "log" -> MapSeq(it.logs, TransformLog)
      [] tbl = "trace" -> MapSeq(it.traces, TransformTrace)
      [] tbl = "transaction" -> MapSeq(it.enriched_txs, TransformTransaction)
      [] tbl = "block" -> MapSeq(it.blocks, TransformBlock)

RowSet(params) == {params[k] : k \in DOMAIN params}

\* (variant used to test the properties) a row that is stored already is stored once more
AppendRows(T, rows) ==
    T \cup {IF row \in T THEN Put(row, "copy", Num(2)) ELSE row : row \in rows}
\* the prepared INSERT of build_cql_insert_stmt, executed for each of the
\* rows: an upsert, a row stored already is stored as it was
InsertRows(T, rows) == T \cup rows

\* (variant used to test the properties) the budget compared with >=
ExceededAtBudget(c) == c >= retry_thsh
\* if ctr > retry_thsh
Exceeded(c) == c > retry_thsh
\* (variant used to test the properties) a failure that is not counted
CountNothing(c) == c
\* ctr += 1
CountFailure(c) == c + 1
\* (variant used to test the properties) no reset after a row's retry succeeded
KeepCounter(c) == c
\* ctr = 0 after a row's retry succeeded
AfterSuccess(c) == 0
\* ctr = 0 on entry
InitialCtr(c) == 0
\* (variant used to test the properties) only the rows the failed attempt did not store are resubmitted
ResubmitUnwritten(params, written) ==
    SelectSeq(params, LAMBDA row : row \notin written)
\* the parameters of the resubmission after a batch-level failure
Resubmission(params, written) == params
\* the first index after `from` whose flag is False, 0 when there is none
FirstFailedAfter(flags, from) ==
    LET later == {k \in DOMAIN flags : k > from /\ ~flags[k]}
    IN  IF later = {} THEN 0 ELSE CHOOSE k \in later : \A m \in later : k <= m
\* (variant used to test the properties) the loop over the results ends after the first retried row
NextFailedFirstOnly(flags, from) ==
    IF from = 0 THEN FirstFailedAfter(flags, 0) ELSE 0
\* (variant used to test the properties) every row of the results is retried, failed or not
NextRow(flags, from) == IF from < Len(flags) THEN from + 1 ELSE 0
\* for (i, (success, _)) in enumerate(results): if not success:
\* the next index after `from` that is retried, 0 when the loop is over
NextFailed(flags, from) == FirstFailedAfter(flags, from)

\* break: cassandra_ingest is about to return
Returns ==
    /\ wpc' = "returned"
    /\ wresult' = "returned"
    /\ UNCHANGED <<pc, exit_code, raised, fatal>>

\* the exception of store operation number op leaves cassandra_ingest
Raises(op) ==
    /\ wpc' = "raised"
    /\ pc' = OnRaise(pc)
    /\ wresult' = "raised"
    /\ raised' = op
    /\ fatal' = TRUE
    /\ exit_code' = 1

\* (variant used to test the properties) the handler counts from zero
OuterExceptCountsAfresh(c, op) ==
    LET c2 == CountFailure(0)
    IN  /\ ctr' = c2
        /\ IF Exceeded(c2)
           THEN Raises(op)
           ELSE /\ wpc' = "sleep"
                /\ UNCHANGED <<pc, exit_code, wresult, raised, fatal>>
\* the handler of the outer try, entered with the counter at c
OuterExcept(c, op) ==
    LET c2 == CountFailure(c)
    IN  /\ ctr' = c2
        /\ IF Exceeded(c2)
           THEN Raises(op)
           ELSE /\ wpc' = "sleep"
                /\ UNCHANGED <<pc, exit_code, wresult, raised, fatal>>

\* ingest_logs, ingest_traces, ingest_transactions, ingest_blocks: the rows
\* are transformed and cassandra_ingest is entered; a KeyError of the
\* transformation is caught nowhere
CallIngest ==
    /\ pc \in IngestPhases
    /\ wpc \in {"idle", "raised"}
    /\ IF TransformRaises(TableOf(pc), items)
       THEN /\ pc' = "aborted"
            /\ exit_code' = 1
            /\ UNCHANGED <<writeVars, histWrite>>
       ELSE /\ wtable' = TableOf(pc)
            /\ parameters' = RowsFor(TableOf(pc), items)
            /\ ctr' = InitialCtr(ctr)
            /\ results' = <<>>
            /\ i' = 0
            /\ wpc' = "submit"
            /\ wresult' = "running"
            /\ attempts' = 0
            /\ sleeps' = 0
            /\ last_failed' = {}
            /\ retried' = {}
            /\ raised' = 0
            /\ UNCHANGED <<pc, exit_code, streak>>
    /\ UNCHANGED <<storeVars, args, last_ingested_block, start_block,
                   end_block, block_id, current_end_block, items, histRun>>
    /\ UNCHANGED <<csvVars, globals, ingestVars>>

\* execute_concurrent_with_args returns its results: the rows flagged
\* successful are stored; a row flagged failed may have been applied all the
\* same
ConcurrentReturns ==
    /\ pc \in IngestPhases
    /\ wpc = "submit"
    /\ \E flags \in [DOMAIN parameters -> BOOLEAN] :
       \E applied \in SUBSET {k \in DOMAIN parameters : ~flags[k]} :
          /\ store' = [store EXCEPT ![wtable] =
                 InsertRows(@, {parameters[k] : k \in
                            {m \in DOMAIN parameters : flags[m]} \cup applied})]
          /\ results' = flags
          /\ last_failed' = {k \in DOMAIN parameters : ~flags[k]}
          /\ streak' = IF \A k \in DOMAIN parameters : flags[k]
                       THEN 0 ELSE Bump(streak)
          /\ LET j == NextFailed(flags, 0)
             IN  IF j = 0
                 THEN /\ Returns
                      /\ i' = i
                 ELSE /\ i' = j
                      /\ wpc' = "retry"
                      /\ UNCHANGED <<pc, exit_code, wresult, raised, fatal>>
    /\ attempts' = Bump(attempts)
    /\ retried' = {}
    /\ Issue
    /\ UNCHANGED <<configuration, args, last_ingested_block, start_block,
                   end_block, block_id, current_end_block, items, wtable,
                   parameters, ctr, runs, windows, first_run, resumed,
                   sleeps>>
    /\ UNCHANGED <<csvVars, globals, ingestVars>>

\* execute_concurrent_with_args throws after some rows were stored
ConcurrentThrows ==
    /\ pc \in IngestPhases
    /\ wpc = "submit"
    /\ \E written \in SUBSET RowSet(parameters) :
          /\ store' = [store EXCEPT ![wtable] = InsertRows(@, written)]
          /\ parameters' = Resubmission(parameters, written)
    /\ last_failed' = DOMAIN parameters
    /\ attempts' = Bump(attempts)
    /\ streak' = Bump(streak)
    /\ OuterExcept(ctr, attempts')
    /\ Issue
    /\ UNCHANGED <<configuration, args, last_ingested_block, start_block,
                   end_block, block_id, current_end_block, items, wtable,
                   results, i, runs, windows, first_run, resumed, sleeps,
                   retried>>
    /\ UNCHANGED <<csvVars, globals, ingestVars>>

\* time.sleep(1); continue
Sleep ==
    /\ pc \in IngestPhases
    /\ wpc = "sleep"
    /\ wpc' = "submit"
    /\ sleeps' = Bump(sleeps)
    /\ UNCHANGED <<storeVars, mainVars, wtable, parameters, ctr, results, i,
                   histRun, wresult, attempts, streak, last_failed, retried,
                   raised>>
    /\ UNCHANGED <<csvVars, globals, ingestVars>>

\* session.execute(prepared_stmt, parameters[i]) succeeds
ExecuteOk ==
    /\ pc \in IngestPhases
    /\ wpc = "retry"
    /\ store' = [store EXCEPT ![wtable] = InsertRows(@, {parameters[i]})]
    /\ ctr' = AfterSuccess(ctr)
    /\ attempts' = Bump(attempts)
    /\ streak' = 0
    /\ last_failed' = last_failed \ {i}
    /\ retried' = retried \cup {i}
    /\ LET j == NextFailed(results, i)
       IN  IF j = 0
           THEN /\ Returns
                /\ i' = i
           ELSE /\ i' = j
                /\ wpc' = "retry"
                /\ UNCHANGED <<pc, exit_code, wresult, raised, fatal>>
    /\ Issue
    /\ UNCHANGED <<configuration, args, last_ingested_block, start_block,
                   end_block, block_id, current_end_block, items, wtable,
                   parameters, results, runs, windows, first_run, resumed,
                   sleeps>>
    /\ UNCHANGED <<csvVars, globals, ingestVars>>

\* session.execute(prepared_stmt, parameters[i]) throws (the write may have
\* been applied all the same)
ExecuteThrows ==
    /\ pc \in IngestPhases
    /\ wpc = "retry"
    /\ \E applied \in BOOLEAN :
          store' = [store EXCEPT ![wtable] =
                        IF applied THEN InsertRows(@, {parameters[i]}) ELSE @]
    /\ attempts' = Bump(attempts)
    /\ streak' = Bump(streak)
    /\ retried' = retried \cup {i}
    /\ LET c1 == CountFailure(ctr)
       IN  IF Exceeded(c1)
           THEN \* raise exception: it lands in the outer try's handler
                OuterExcept(c1, attempts')
           ELSE /\ ctr' = c1
                /\ UNCHANGED <<pc, exit_code, wpc, wresult, raised, fatal>>
    /\ Issue
    /\ UNCHANGED <<configuration, args, last_ingested_block, start_block,
                   end_block, block_id, current_end_block, items, wtable,
                   parameters, results, i, runs, windows, first_run, resumed,
                   sleeps, last_failed>>
    /\ UNCHANGED <<csvVars, globals, ingestVars>>

\* cassandra_ingest and the ingest_* function that called it return to main;
\* their locals are gone
IngestReturn ==
    /\ pc \in IngestPhases
    /\ wpc = "returned"
    /\ pc' = NextPhase(pc)
    /\ wpc' = "idle"
    /\ parameters' = <<>>
    /\ ctr' = 0
    /\ results' = <<>>
    /\ i' = 0
    /\ wresult' = "none"
    /\ attempts' = 0
    /\ sleeps' = 0
    /\ last_failed' = {}
    /\ retried' = {}
    /\ UNCHANGED <<storeVars, args, last_ingested_block, start_block,
                   end_block, block_id, current_end_block, items, exit_code,
                   wtable, histRun, streak, raised>>
    /\ UNCHANGED <<csvVars, globals, ingestVars>>

(* ------------------------- ingest_configuration ------------------------ *)

ConfigRow ==
    [id |-> "keyspace", block_bucket_size |-> BLOCK_BUCKET_SIZE,
     tx_prefix_length |-> TX_HASH_PREFIX_LEN]

\* (variant used to test the properties) the record is added to those of its key
InsertBeside(tbl, row) ==
    tbl \cup {[row EXCEPT !.id = IF row \in tbl THEN "keyspace_2" ELSE @]}
\* INSERT INTO configuration: an upsert on the key id
Upsert(tbl, row) == {r \in tbl : r.id # row.id} \cup {row}

\* ingest_configuration and cluster.shutdown(); the insert is not retried
IngestConfiguration ==
    /\ pc = "configuration"
    /\ \/ /\ configuration' = Upsert(configuration, ConfigRow)
          /\ pc' = "done"
          /\ exit_code' = 0
       \/ /\ pc' = "aborted"
          /\ exit_code' = 1
          /\ UNCHANGED configuration
    /\ Issue
    /\ UNCHANGED <<store, args, last_ingested_block, start_block, end_block,
                   block_id, current_end_block, items, writeVars, runs,
                   windows, first_run, resumed, fatal, histWrite>>
    /\ UNCHANGED <<csvVars, globals, ingestVars>>

(* --------------------------- process lifecycle ------------------------- *)

\* the process dies and its memory is gone; the rows of a concurrent pass in
\* flight that reached the store stay there
Crash ==
    /\ pc \in Running
    /\ \E written \in SUBSET (IF wpc = "submit" THEN RowSet(parameters) ELSE {}) :
          store' = [store EXCEPT ![wtable] = InsertRows(@, written)]
    /\ pc' = "crashed"
    /\ exit_code' = 137
    /\ ResetLocals
    /\ UNCHANGED <<configuration, args, runs, first_run, resumed>>
    /\ UNCHANGED <<csvVars, globals, ingestVars>>

\* a new process is started against the same keyspace
Restart ==
    /\ pc \in Ended
    /\ runs < MaxRuns
    /\ args' \in RestartArgSet
    /\ runs' = runs + 1
    /\ resumed' = (resumed /\ args'.start_block = None /\ ~args'.info)
    /\ pc' = "main"
    /\ exit_code' = None
    /\ ResetLocals
    /\ UNCHANGED <<storeVars, first_run>>
    /\ UNCHANGED <<csvVars, globals, ingestVars>>

RunStep ==
    \/ MainBegin
    \/ LoopNext
    \/ ExportBlocksAndTransactions
    \/ ExportReceiptsAndLogs
    \/ ExportTraces
    \/ Enrich
    \/ CallIngest
    \/ ConcurrentReturns
    \/ ConcurrentThrows
    \/ Sleep
    \/ ExecuteOk
    \/ ExecuteThrows
    \/ IngestReturn
    \/ Count
    \/ IngestConfiguration

Next == RunStep \/ Crash \/ Restart

\* processes that die and are started again, against one keyspace
Spec == Init /\ [][Next]_vars

\* one process that runs undisturbed
SpecRun == Init /\ [][RunStep]_vars

\* ... and keeps running: main is one sequential control flow, and every
\* call to the store or to the chain client returns or throws
SpecRunFair == SpecRun /\ WF_vars(RunStep)


(* ------------------------- arbitrary table states ---------------------- *)

\* rows a block table may hold, whatever wrote them
AnyBlockRows ==
    {[block_id |-> b, block_id_group |-> g] : b \in BlockIds, g \in 0..MaxGroup}

\* main is run with -i against a block table in an arbitrary state
InitResolve ==
    /\ bucket_size = BLOCK_BUCKET_SIZE
    /\ \E T \in SUBSET AnyBlockRows :
          /\ Cardinality(T) <= MaxRows
          /\ store = [t \in Tables |-> IF t = "block" THEN T ELSE {}]
    /\ configuration = {}
    /\ args = [info |-> TRUE, start_block |-> None, end_block |-> None,
               prev_day |-> FALSE, batch_size |-> 1]
    /\ runs = 1
    /\ first_run = <<None, None>>
    /\ resumed = TRUE
    /\ InitLocals

SpecResolve == InitResolve /\ [][MainBegin]_vars

\* main is run against a block table in an arbitrary state, up to the window
\* loop, with any -s, -e and -p (the window size plays no part there)
InitResume ==
    /\ bucket_size = BLOCK_BUCKET_SIZE
    /\ \E T \in SUBSET AnyBlockRows :
          /\ Cardinality(T) <= MaxRows
          /\ store = [t \in Tables |-> IF t = "block" THEN T ELSE {}]
    /\ configuration = {}
    /\ args \in {a \in ArgSet : a.batch_size = 1}
    /\ runs = 1
    /\ first_run = <<None, None>>
    /\ resumed = TRUE
    /\ InitLocals

SpecResume == InitResume /\ [][MainBegin]_vars


(* ----------------------- a keyspace ingested before -------------------- *)

\* the rows of table t that a completed run over the blocks 0..p has stored
StoredRows(t, p) ==
    RowSet(RowsFor(t, [NoItems EXCEPT
                         !.blocks = export_blocks(0, p),
                         !.logs = export_logs(export_transactions(0, p)),
                         !.traces = export_traces(0, p, TRUE, TRUE),
                         !.enriched_txs =
                             enrich_transactions(
                                 export_transactions(0, p),
                                 export_receipts(export_transactions(0, p)))]))

\* a run against a keyspace into which an earlier run has ingested the blocks
\* 0..p and recorded its configuration (p = -1: a fresh keyspace)
InitStored ==
    /\ bucket_size = BLOCK_BUCKET_SIZE
    /\ \E p \in (-1)..MaxBlock :
          /\ store = [t \in Tables |-> StoredRows(t, p)]
          /\ configuration = IF p = -1 THEN {} ELSE {ConfigRow}
    /\ args \in ArgSet
    /\ runs = 1
    /\ first_run = <<None, None>>
    /\ resumed = TRUE
    /\ InitLocals

SpecStored == InitStored /\ [][RunStep]_vars

\* a run against a keyspace that earlier runs, all of them with the bucket
\* size of this one, have written: the block table holds any part of the
\* rows of the chain (writes cut short leave gaps), the other tables the
\* rows up to the highest block stored
InitCheckpoint ==
    /\ bucket_size \in 1..(BLOCK_BUCKET_SIZE + 1)
    /\ \E T \in SUBSET StoredRows("block", MaxBlock) :
          store = [t \in Tables |->
                      IF t = "block" THEN T
                      ELSE StoredRows(t, Max({None} \cup
                                           {r.block_id : r \in T}))]
    /\ configuration = {}
    /\ args \in {a \in RestartArgSet : a.info \/ a.batch_size = MaxBatch}
    /\ runs = 1
    /\ first_run = <<None, None>>
    /\ resumed = TRUE
    /\ InitLocals

SpecCheckpoint == InitCheckpoint /\ [][RunStep]_vars


(* ------------------- one exported batch, transformed ------------------- *)

\* the exporter's main: the items of the batch are formatted and appended
\* to the four lists; a KeyError of a format function is caught nowhere
FormatBatch ==
    /\ xpc = "format"
    /\ IF FormatRaises(items)
       THEN /\ xpc' = "aborted"
            /\ UNCHANGED <<block_list, tx_list, trace_list, logs_list>>
       ELSE /\ block_list' = block_list \o format_blocks(items.blocks)
            /\ tx_list' = tx_list \o format_transactions(items.enriched_txs)
            /\ trace_list' = trace_list \o format_traces(items.traces)
            /\ logs_list' = logs_list \o format_logs(items.logs)
            /\ xpc' = "flush"
    /\ UNCHANGED csv_files
    /\ UNCHANGED <<storeVars, mainVars, writeVars, histRun, histWrite,
                   globals, exportVars, ingestVars>>

\* the exporter's main, at the end of a file's range: the four files are
\* written and the lists are cleared
Flush ==
    /\ xpc = "flush"
    /\ csv_files' = [trace |-> write_csv(trace_list, TRACE_HEADER),
                     tx |-> write_csv(tx_list, TX_HEADER),
                     block |-> write_csv(block_list, BLOCK_HEADER),
                     logs |-> write_csv(logs_list, LOGS_HEADER)]
    /\ block_list' = <<>>
    /\ tx_list' = <<>>
    /\ trace_list' = <<>>
    /\ logs_list' = <<>>
    /\ xpc' = "flushed"
    /\ UNCHANGED <<storeVars, mainVars, writeVars, histRun, histWrite,
                   globals, exportVars, ingestVars>>

\* what the chain client exports for the blocks a..b
ExportedItems(a, b) ==
    [blocks |-> export_blocks(a, b),
     txs |-> export_transactions(a, b),
     receipts |-> export_receipts(export_transactions(a, b)),
     logs |-> export_logs(export_transactions(a, b)),
     traces |-> export_traces(a, b, TRUE, TRUE),
     enriched_txs |-> enrich_transactions(
                          export_transactions(a, b),
                          export_receipts(export_transactions(a, b)))]

\* the topics a log item may carry: none at all (anonymous events), one, two,
\* or no list
TopicShapes ==
    {Null, List(<<>>), List(<<Hex(<<"d", "d">>)>>),
     List(<<Hex(<<"d", "d">>), Hex(<<"e", "e">>)>>)}
WithTopics(logs, topics) ==
    [k \in DOMAIN logs |-> [logs[k] EXCEPT !.topics = topics]]

\* the trace addresses a trace item may carry: none (a reward, a genesis
\* allocation), the empty path of a top-level call, paths of child calls
TracePaths ==
    {Null, List(<<>>), List(<<0>>), List(<<0, 1>>), List(<<1, 10>>)}
WithPath(traces, path) ==
    [k \in DOMAIN traces |-> [traces[k] EXCEPT !.trace_address = path]]
\* the keys of a block item; a chain client that breaks its contract leaves
\* one out
BlockFields == DOMAIN RawBlock(0)
WithoutField(blocks, f) == [k \in DOMAIN blocks |-> Pop(blocks[k], f)]

\* the tables written in a window before the ingest phase p is reached
TablesBefore(p) ==
    CASE p = "ingest_logs" -> {}
      [] p = "ingest_traces" -> {"log"}
      [] p = "ingest_transactions" -> {"log", "trace"}
      [] p = "ingest_blocks" -> {"log", "trace", "transaction"}

\* both programs at the point where a batch has been exported: the streaming
\* process, started with -s on a fresh keyspace, is in its first window and
\* about to call one of its ingest_* functions (the earlier ones have
\* returned); the exporter is about to format the batch. The batch is as
\* the chain client exports it, but for the topics of its logs, for the
\* trace addresses of its traces, or for a key missing in its blocks
InitBatch(argset) ==
    /\ args \in {a \in argset : /\ ~a.info
                                /\ a.start_block # None
                                /\ ~NoWork(a.start_block, EndBlock(a))}
    /\ pc \in IngestPhases
    /\ start_block = args.start_block
    /\ end_block = EndBlock(args)
    /\ block_id = start_block
    /\ current_end_block = CurrentEnd(block_id, end_block, args.batch_size)
    /\ \/ \E topics \in TopicShapes :
             items = [ExportedItems(block_id, current_end_block)
                         EXCEPT !.logs = WithTopics(@, topics)]
       \/ \E path \in TracePaths :
             items = [ExportedItems(block_id, current_end_block)
                         EXCEPT !.traces = WithPath(@, path)]
       \/ \E f \in BlockFields :
             items = [ExportedItems(block_id, current_end_block)
                         EXCEPT !.blocks = WithoutField(@, f)]
    /\ \A t \in TablesBefore(pc) : ~TransformRaises(t, items)
    /\ store = [t \in Tables |->
                   IF t \in TablesBefore(pc) THEN RowSet(RowsFor(t, items))
                   ELSE {}]
    /\ configuration = {}
    /\ windows = <<<<block_id, current_end_block>>>>
    /\ first_run = <<start_block, end_block>>
    /\ xpc = "format"
    /\ block_list = <<>>
    /\ tx_list = <<>>
    /\ trace_list = <<>>
    /\ logs_list = <<>>
    /\ csv_files = NoFiles
    /\ ExporterNotStarted
    /\ IngestNotStarted
    /\ last_ingested_block = None
    /\ exit_code = None
    /\ wpc = "idle"
    /\ wtable = "log"
    /\ parameters = <<>>
    /\ ctr = 0
    /\ results = <<>>
    /\ i = 0
    /\ runs = 1
    /\ resumed = TRUE
    /\ wresult = "none"
    /\ attempts = 0
    /\ streak = 0
    /\ sleeps = 0
    /\ last_failed = {}
    /\ retried = {}
    /\ raised = 0
    /\ fatal = FALSE
    /\ after_fatal = FALSE

InitTransform ==
    /\ bucket_size = BLOCK_BUCKET_SIZE
    /\ InitBatch(ArgSet)

TransformStep == CallIngest \/ FormatBatch \/ Flush

SpecTransform == InitTransform /\ [][TransformStep]_vars


(* --------------------- the script with any bucket size ----------------- *)

\* the values of BLOCK_BUCKET_SIZE tried: negative ones, 0, positive ones
BucketSizes == (0 - BLOCK_BUCKET_SIZE)..(BLOCK_BUCKET_SIZE + 1)

\* as InitTransform, with a script whose BLOCK_BUCKET_SIZE is any of these
InitBucket ==
    /\ bucket_size \in BucketSizes
    /\ InitBatch({a \in ArgSet : a.end_block = None /\ ~a.prev_day})

SpecBucket == InitBucket /\ [][TransformStep]_vars


(* ------------- a keyspace ingested with other constants ---------------- *)

\* the rows of table t that the ingest functions make of the items it with
\* the given bucket size and prefix length
RowsWith(t, it, block_bucket_size, tx_hash_prefix_len) ==
    LET log(x) == none_to_unset(LogItem(x, block_bucket_size))
        trace(x) == none_to_unset(TraceItem(x, block_bucket_size))
        tx(x) == none_to_unset(TransactionItem(x, tx_hash_prefix_len))
        block(x) == none_to_unset(BlockItem(x, block_bucket_size))
    IN  CASE t = "log" -> MapSeq(it.logs, log)
          [] t = "trace" -> MapSeq(it.traces, trace)
          [] t = "transaction" -> MapSeq(it.enriched_txs, tx)
          [] t = "block" -> MapSeq(it.blocks, block)

\* the configuration record for the given constants
ConfigRowOf(block_bucket_size, tx_hash_prefix_len) ==
    [id |-> "keyspace", block_bucket_size |-> block_bucket_size,
     tx_prefix_length |-> tx_hash_prefix_len]

\* constants of an earlier version of the script that disagree with the
\* present ones in the bucket size or in the prefix length
OtherConstants ==
    {<<BLOCK_BUCKET_SIZE + 1, TX_HASH_PREFIX_LEN>>,
     <<BLOCK_BUCKET_SIZE, TX_HASH_PREFIX_LEN - 1>>}

\* a run against a keyspace into which a run of the earlier version has
\* ingested the blocks 0..p and recorded its configuration
InitMismatch ==
    /\ bucket_size = BLOCK_BUCKET_SIZE
    /\ \E p \in BlockIds, c \in OtherConstants :
          /\ store = [t \in Tables |->
                         RowSet(RowsWith(t, ExportedItems(0, p), c[1], c[2]))]
          /\ configuration = {ConfigRowOf(c[1], c[2])}
    /\ args \in {a \in ArgSet : ~a.info}
    /\ runs = 1
    /\ first_run = <<None, None>>
    /\ resumed = TRUE
    /\ InitLocals

SpecMismatch == InitMismatch /\ [][RunStep]_vars


(* ------------------ an export that breaks its contract ----------------- *)

\* the sequence s without its k-th element
Without(s, k) == SubSeq(s, 1, k - 1) \o SubSeq(s, k + 1, Len(s))

\* adapter.export_receipts_and_logs returns without the receipt (and so
\* without the logs) of one of the transactions handed in
ExportReceiptsAndLogsShort ==
    /\ pc = "export_rl"
    /\ \E k \in DOMAIN items.txs :
          items' = [items EXCEPT
                      !.receipts = Without(export_receipts(items.txs), k),
                      !.logs = Without(export_logs(items.txs), k)]
    /\ pc' = NextPhase(pc)
    /\ Issue
    /\ UNCHANGED <<storeVars, args, last_ingested_block, start_block,
                   end_block, block_id, current_end_block, exit_code,
                   writeVars, runs, windows, first_run, resumed, fatal,
                   histWrite>>
    /\ UNCHANGED <<csvVars, globals, ingestVars>>

ContractStep == RunStep \/ ExportReceiptsAndLogsShort

\* one run, in which the chain client may fail to deliver a receipt
SpecContract == Init /\ [][ContractStep]_vars

(* ------------------- the exporter's main (eth_csv_export.py) ----------- *)

\* largest --batch-size, --file-batch-size and --partition-batch-size tried
\* (the defaults are 10, 1000 and 1_000_000); 0 is tried as well
MaxExportBatch == 2
MaxFileBatch == 3
MaxPartitionBatch == 4

\* the command lines of the exporter; -p is tried without -e
ExportArgSet ==
    {[batch_size |-> w, file_batch_size |-> f, partition_batch_size |-> p,
      start_block |-> s, end_block |-> e, prev_day |-> d,
      continue_export |-> c] :
        w \in 0..MaxExportBatch, f \in 0..MaxFileBatch,
        p \in 0..MaxPartitionBatch, s \in {None, 0, 1},
        e \in {None, last_synced_block - 1}, d \in BOOLEAN, c \in BOOLEAN}

\* the four kinds of file, in the order they are written
FileKinds == <<"trace", "tx", "block", "logs">>
\* "%s_%08d-%08d.csv.gz" in the directory "%08d-%08d"
CsvFile(sub_dir, kind, block_range, lines) ==
    [sub_dir |-> sub_dir, kind |-> kind, block_range |-> block_range,
     lines |-> lines]
\* open(filename, "wt"): a file of the same name is replaced
WriteFile(fs, f) ==
    {g \in fs : ~(/\ g.sub_dir = f.sub_dir
                  /\ g.kind = f.kind
                  /\ g.block_range = f.block_range)} \cup {f}

\* start_block of the exporter: -s, or with --continue the end of the last
\* block file plus one, or 0
ExportStartBlock(a, fs) ==
    IF a.start_block # None THEN a.start_block
    ELSE IF a.continue_export /\ \E f \in fs : f.kind = "block"
         THEN Max({f.block_range[2] : f \in {g \in fs : g.kind = "block"}}) + 1
         ELSE 0
\* end_block of the exporter
ExportEndBlock(a) ==
    IF a.prev_day THEN last_block_yesterday
    ELSE IF a.end_block # None THEN a.end_block
    ELSE last_synced_block

\* the % of the two checks divides by zero
SizeCheckRaises(a) ==
    \/ a.batch_size = 0
    \/ a.file_batch_size = 0
\* (variant used to test the properties) only the first check is made
SizesRejectedFirstOnly(a) ==
    a.file_batch_size % a.batch_size # 0
\* the two checks of the sizes; each prints an error and raises SystemExit(1)
SizesRejected(a) ==
    \/ a.file_batch_size % a.batch_size # 0
    \/ a.partition_batch_size % a.file_batch_size # 0

RoundedStart(s, block_bucket_size) ==
    (s \div block_bucket_size) * block_bucket_size
\* (variant used to test the properties) the end of the range is not rounded down
RoundedEndUnrounded(e, block_bucket_size) == e
RoundedEnd(e, block_bucket_size) ==
    ((e + 1) \div block_bucket_size) * block_bucket_size - 1

\* main up to the loop: the arguments, the range, the checks of the sizes,
\* the base directory (mkdir may fail with PermissionError)
ExportBegin ==
    /\ xpc = "main"
    /\ xstart_block' = ExportStartBlock(xargs, xfiles)
    /\ xend_block' = ExportEndBlock(xargs)
    /\ IF SizeCheckRaises(xargs) \/ SizesRejected(xargs)
       THEN /\ xpc' = IF SizeCheckRaises(xargs) THEN "aborted" ELSE "exited"
            /\ xexit_code' = 1
            /\ UNCHANGED <<xblock_id, xblock_range, xdirs>>
       ELSE IF RoundedStart(xstart_block', xargs.file_batch_size)
                  > RoundedEnd(xend_block', xargs.file_batch_size)
       THEN /\ xpc' = "exited"
            /\ xexit_code' = 0
            /\ UNCHANGED <<xblock_id, xblock_range, xdirs>>
       ELSE \E made \in BOOLEAN :
              IF made
              THEN /\ xdirs' = xdirs \cup {<<>>}
                   /\ xblock_id' =
                         RoundedStart(xstart_block', xargs.file_batch_size)
                   /\ xblock_range' =
                         <<xblock_id', xblock_id' + xargs.file_batch_size - 1>>
                   /\ xpc' = "loop"
                   /\ UNCHANGED xexit_code
              ELSE /\ xpc' = "exited"
                   /\ xexit_code' = 1
                   /\ UNCHANGED <<xblock_id, xblock_range, xdirs>>
    /\ UNCHANGED <<xargs, xwindows, xfiles, block_list, tx_list, trace_list,
                   logs_list, csv_files>>
    /\ UNCHANGED <<storeVars, mainVars, writeVars, histRun, histWrite,
                   globals, ingestVars>>

\* one pass of the loop up to the test for the end of a file: the window is
\* extracted and formatted, the lists are extended; or the loop is over
ExportWindow ==
    /\ xpc = "loop"
    /\ IF xblock_id > RoundedEnd(xend_block, xargs.file_batch_size)
       THEN /\ xpc' = "done"
            /\ xexit_code' = 0
            /\ UNCHANGED <<xblock_id, xwindows, block_list, tx_list,
                           trace_list, logs_list>>
       ELSE LET ce == Min(xend_block, xblock_id + xargs.batch_size - 1)
                it == ExportedItems(xblock_id, ce)
            IN  /\ xwindows' = Append(xwindows, <<xblock_id, ce>>)
                /\ IF EnrichRaises(it.txs, it.receipts) \/ FormatRaises(it)
                   THEN /\ xpc' = "aborted"
                        /\ xexit_code' = 1
                        /\ UNCHANGED <<xblock_id, block_list, tx_list,
                                       trace_list, logs_list>>
                   ELSE /\ block_list' =
                               block_list \o format_blocks(it.blocks)
                        /\ tx_list' =
                               tx_list \o format_transactions(it.enriched_txs)
                        /\ trace_list' =
                               trace_list \o format_traces(it.traces)
                        /\ logs_list' = logs_list \o format_logs(it.logs)
                        /\ IF (xblock_id + xargs.batch_size)
                                 % xargs.file_batch_size = 0
                           THEN /\ xpc' = "write_trace"
                                /\ UNCHANGED xblock_id
                           ELSE /\ xpc' = "loop"
                                /\ xblock_id' =
                                      RangeStep(xblock_id, xargs.batch_size)
                        /\ UNCHANGED xexit_code
    /\ UNCHANGED <<xargs, xstart_block, xend_block, xblock_range, xdirs,
                   xfiles, csv_files>>
    /\ UNCHANGED <<storeVars, mainVars, writeVars, histRun, histWrite,
                   globals, ingestVars>>

KindAt(p) ==
    CASE p = "write_trace" -> "trace"
      [] p = "write_tx" -> "tx"
      [] p = "write_block" -> "block"
      [] p = "write_logs" -> "logs"
AfterWrite(p) ==
    CASE p = "write_trace" -> "write_tx"
      [] p = "write_tx" -> "write_block"
      [] p = "write_block" -> "write_logs"
      [] p = "write_logs" -> "loop"
\* the directory of the partition the window is in
SubDir(b, partition_batch_size) ==
    <<b - (b % partition_batch_size),
      b - (b % partition_batch_size) + partition_batch_size - 1>>

\* the end of a file's range: the directory of the partition is made, the
\* four files are written one after the other, then the names move to the
\* next range and the lists are cleared; a partition batch size of 0 passes
\* the checks of main and divides by zero here
ExportWrite ==
    /\ xpc \in {"write_trace", "write_tx", "write_block", "write_logs"}
    /\ IF xargs.partition_batch_size = 0
       THEN /\ xpc' = "aborted"
            /\ xexit_code' = 1
            /\ UNCHANGED <<xdirs, xfiles, csv_files, xblock_range, block_list,
                           tx_list, trace_list, logs_list, xblock_id>>
       ELSE /\ LET sub_dir == SubDir(xblock_id, xargs.partition_batch_size)
                   lines == CASE xpc = "write_trace" ->
                                    write_csv(trace_list, TRACE_HEADER)
                              [] xpc = "write_tx" ->
                                    write_csv(tx_list, TX_HEADER)
                              [] xpc = "write_block" ->
                                    write_csv(block_list, BLOCK_HEADER)
                              [] xpc = "write_logs" ->
                                    write_csv(logs_list, LOGS_HEADER)
               IN  /\ xdirs' = xdirs \cup {sub_dir}
                   /\ xfiles' = WriteFile(xfiles,
                                          CsvFile(sub_dir, KindAt(xpc),
                                                  xblock_range, lines))
                   /\ csv_files' = [csv_files EXCEPT ![KindAt(xpc)] = lines]
            /\ xpc' = AfterWrite(xpc)
            /\ IF xpc = "write_logs"
               THEN /\ xblock_range' =
                          <<xblock_id + xargs.batch_size,
                            xblock_id + xargs.batch_size
                                + xargs.file_batch_size - 1>>
                    /\ block_list' = <<>>
                    /\ tx_list' = <<>>
                    /\ trace_list' = <<>>
                    /\ logs_list' = <<>>
                    /\ xblock_id' = RangeStep(xblock_id, xargs.batch_size)
               ELSE UNCHANGED <<xblock_range, block_list, tx_list,
                                trace_list, logs_list, xblock_id>>
            /\ UNCHANGED xexit_code
    /\ UNCHANGED <<xargs, xstart_block, xend_block, xwindows>>
    /\ UNCHANGED <<storeVars, mainVars, writeVars, histRun, histWrite,
                   globals, ingestVars>>

\* the files an earlier, completed export of the blocks below b left, made
\* with files of one block each
FilesBelow(b) ==
    UNION {{CsvFile(SubDir(n, MaxPartitionBatch), "trace", <<n, n>>,
                    write_csv(format_traces(ExportedItems(n, n).traces),
                              TRACE_HEADER)),
            CsvFile(SubDir(n, MaxPartitionBatch), "tx", <<n, n>>,
                    write_csv(format_transactions(
                                  ExportedItems(n, n).enriched_txs),
                              TX_HEADER)),
            CsvFile(SubDir(n, MaxPartitionBatch), "block", <<n, n>>,
                    write_csv(format_blocks(ExportedItems(n, n).blocks),
                              BLOCK_HEADER)),
            CsvFile(SubDir(n, MaxPartitionBatch), "logs", <<n, n>>,
                    write_csv(format_logs(ExportedItems(n, n).logs),
                              LOGS_HEADER))} : n \in 0..(b - 1)}

\* the exporter is started on an empty directory or on one that holds the
\* files of an earlier export; the streaming process is not running
InitExport ==
    /\ bucket_size = BLOCK_BUCKET_SIZE
    /\ configuration = {}
    /\ store = [t \in Tables |-> {}]
    /\ args \in {a \in ArgSet : a.info}
    /\ pc = "main"
    /\ last_ingested_block = None
    /\ start_block = 0
    /\ end_block = 0
    /\ block_id = 0
    /\ current_end_block = 0
    /\ items = NoItems
    /\ exit_code = None
    /\ wpc = "idle"
    /\ wtable = "log"
    /\ parameters = <<>>
    /\ ctr = 0
    /\ results = <<>>
    /\ i = 0
    /\ runs = 0
    /\ windows = <<>>
    /\ first_run = <<None, None>>
    /\ resumed = TRUE
    /\ wresult = "none"
    /\ attempts = 0
    /\ streak = 0
    /\ sleeps = 0
    /\ last_failed = {}
    /\ retried = {}
    /\ raised = 0
    /\ fatal = FALSE
    /\ after_fatal = FALSE
    /\ xpc = "main"
    /\ block_list = <<>>
    /\ tx_list = <<>>
    /\ trace_list = <<>>
    /\ logs_list = <<>>
    /\ csv_files = NoFiles
    /\ xargs \in ExportArgSet
    /\ xexit_code = None
    /\ xstart_block = 0
    /\ xend_block = 0
    /\ xblock_id = 0
    /\ xblock_range = <<0, 0>>
    /\ xwindows = <<>>
    /\ xdirs = {}
    /\ xfiles \in {FilesBelow(b) : b \in 0..2}
    /\ IngestNotStarted

ExportStep == ExportBegin \/ ExportWindow \/ ExportWrite
SpecExport == InitExport /\ [][ExportStep]_vars

\* the lines of the file that write_csv is writing at position p
LinesAt(p) ==
    CASE p = "write_trace" -> write_csv(trace_list, TRACE_HEADER)
      [] p = "write_tx" -> write_csv(tx_list, TX_HEADER)
      [] p = "write_block" -> write_csv(block_list, BLOCK_HEADER)
      [] p = "write_logs" -> write_csv(logs_list, LOGS_HEADER)
      [] OTHER -> <<>>

\* the exporter dies; its lists are gone, the files written stay; the file
\* that write_csv had opened is missing or holds a part of its lines
ExportCrash ==
    /\ xpc \in {"main", "loop", "write_trace", "write_tx", "write_block",
                "write_logs"}
    /\ \/ UNCHANGED <<xfiles, xdirs>>
       \/ /\ xpc \in {"write_trace", "write_tx", "write_block", "write_logs"}
          /\ xargs.partition_batch_size > 0
          /\ \E n \in 0..(Len(LinesAt(xpc)) - 1) :
                xfiles' = WriteFile(xfiles,
                              CsvFile(SubDir(xblock_id,
                                             xargs.partition_batch_size),
                                      KindAt(xpc), xblock_range,
                                      SubSeq(LinesAt(xpc), 1, n)))
          /\ xdirs' = xdirs \cup {SubDir(xblock_id, xargs.partition_batch_size)}
    /\ xpc' = "crashed"
    /\ xexit_code' = 137
    /\ block_list' = <<>>
    /\ tx_list' = <<>>
    /\ trace_list' = <<>>
    /\ logs_list' = <<>>
    /\ UNCHANGED <<xargs, xstart_block, xend_block, xblock_id, xblock_range,
                   xwindows, csv_files>>
    /\ UNCHANGED <<storeVars, mainVars, writeVars, histRun, histWrite,
                   globals, ingestVars>>

\* the exporter is started again on the same directory, with --continue and
\* without -s, the other arguments as before
ExportRestart ==
    /\ xpc = "crashed"
    /\ xargs' = [xargs EXCEPT !.continue_export = TRUE, !.start_block = None]
    /\ xpc' = "main"
    /\ xexit_code' = None
    /\ xwindows' = <<>>
    /\ UNCHANGED <<xstart_block, xend_block, xblock_id, xblock_range, xdirs,
                   xfiles, block_list, tx_list, trace_list, logs_list,
                   csv_files>>
    /\ UNCHANGED <<storeVars, mainVars, writeVars, histRun, histWrite,
                   globals, ingestVars>>

ExportNext == ExportStep \/ ExportCrash \/ ExportRestart
\* exporters that die and are started again on one directory
SpecExportCrash == InitExport /\ [][ExportNext]_vars

(* ----------------------- the bulk ingest (eth_ingest.py) --------------- *)

\* BLOCK_BUCKET_SIZE of eth_ingest.py is int(1e5); scaled
ingest_BLOCK_BUCKET_SIZE == 2
ingest_TX_PREFIX_LENGTH == 4

\* an argument of -t: the string "table:start-end", or a string without a
\* colon when range is empty
Entry(table, range) == [table |-> table, range |-> range]
\* "word" in s: an element of the list that equals the string
InList(word, s) == \E k \in DOMAIN s : s[k] = Entry(word, <<>>)
\* s.index("word")
IndexOf(word, s) ==
    CHOOSE k \in DOMAIN s :
        /\ s[k] = Entry(word, <<>>)
        /\ \A j \in 1..(k - 1) : s[j] # Entry(word, <<>>)
\* check_table_order raises ValueError
CheckTableOrderRaises(s) ==
    /\ InList("receipt", s)
    /\ InList("transaction", s)
    /\ IndexOf("receipt", s) < IndexOf("transaction", s)
\* i.split(":")[1] raises IndexError for an entry without a colon
SplitRaises(s) == \E k \in DOMAIN s : s[k].range = <<>>

\* row.block_group on the rows of SELECT block_id_group: the rows have no
\* attribute of that name, AttributeError for the first row
LatestBlockRaises(T) == T # {}
\* latest_block_ingested when it returns: the table is empty
latest_block_ingested(T) == 0
\* latest_block_available_before(until_ts, provider_uri)
latest_block_available_before == last_block_yesterday

\* the rows an import loads for the blocks a..b: one block row per block,
\* one transaction row per transaction, a reward trace per block and a call
\* trace per transaction
IngestRows(table, a, b) ==
    CASE table = "block" ->
             {[number |-> n,
               block_id_group |-> n \div ingest_BLOCK_BUCKET_SIZE] :
                  n \in a..b}
      [] table = "transaction" ->
             {[block_id |-> n, hash |-> TxHash(n)] :
                  n \in {m \in a..b : HasTx(m)}}
      [] table = "trace" ->
             {[block_id |-> n,
               block_id_group |-> n \div ingest_BLOCK_BUCKET_SIZE,
               transaction_hash |-> Null] : n \in a..b}
             \cup {[block_id |-> n,
                    block_id_group |-> n \div ingest_BLOCK_BUCKET_SIZE,
                    transaction_hash |-> TxHash(n)] :
                       n \in {m \in a..b : HasTx(m)}}

\* range(start_block, end_block, BLOCK_BUCKET_SIZE)
ReceiptStarts(start, end) ==
    {n \in start..(end - 1) : (n - start) % ingest_BLOCK_BUCKET_SIZE = 0}
\* the queries of import_receipts: block group, from_block, to_block
ReceiptQueries(start, end) ==
    {<<n \div ingest_BLOCK_BUCKET_SIZE, n,
       Min(end, n + ingest_BLOCK_BUCKET_SIZE - 1)>> :
          n \in ReceiptStarts(start, end)}
\* the hashes ingest_receipts_for_blockrange reads from the trace table
QueriedHashes(T, q) ==
    {r.transaction_hash :
        r \in {t \in T : /\ t.block_id_group = q[1]
                         /\ t.block_id >= q[2]
                         /\ t.block_id <= q[3]
                         /\ t.transaction_hash # Null}}

\* main up to import_data: the list of tables to fill is made
IngestMain ==
    /\ ipc = "main"
    /\ IF iargs.until_date
       THEN IF LatestBlockRaises(ikeyspace["block"])
            THEN /\ ipc' = "aborted"
                 /\ iexit_code' = 1
                 /\ UNCHANGED <<tables_to_fill, inext>>
            ELSE LET s == latest_block_ingested(ikeyspace["block"])
                     e == latest_block_available_before
                 IN  /\ tables_to_fill' =
                            <<<<"block", s, e>>, <<"transaction", s, e>>,
                              <<"trace", s, e>>, <<"receipt", s, e>>>>
                     /\ inext' = 1
                     /\ ipc' = "import"
                     /\ UNCHANGED iexit_code
       ELSE IF \/ CheckTableOrderRaises(iargs.table_specific)
               \/ SplitRaises(iargs.table_specific)
            THEN /\ ipc' = "aborted"
                 /\ iexit_code' = 1
                 /\ UNCHANGED <<tables_to_fill, inext>>
            ELSE /\ tables_to_fill' =
                        [k \in DOMAIN iargs.table_specific |->
                            <<iargs.table_specific[k].table,
                              iargs.table_specific[k].range[1],
                              iargs.table_specific[k].range[2]>>]
                 /\ inext' = 1
                 /\ ipc' = "import"
                 /\ UNCHANGED iexit_code
    /\ UNCHANGED <<iargs, ikeyspace, imports, queries, requested>>
    /\ UNCHANGED <<storeVars, mainVars, writeVars, histRun, histWrite,
                   csvVars, globals>>

\* one pass of the loop of import_data: the table of the entry is loaded
\* (the pipe of the two commands may fail); for receipts the hashes are read
\* from the trace table, sub-range by sub-range
ImportNext ==
    /\ ipc = "import"
    /\ IF inext > Len(tables_to_fill)
       THEN /\ ipc' = "configuration"
            /\ UNCHANGED <<inext, ikeyspace, imports, queries, requested,
                           iexit_code>>
       ELSE LET table == tables_to_fill[inext][1]
                a == tables_to_fill[inext][2]
                b == tables_to_fill[inext][3]
            IN  /\ imports' = Append(imports, tables_to_fill[inext])
                /\ \/ /\ IF table = "receipt"
                         THEN LET hashes ==
                                    UNION {QueriedHashes(ikeyspace["trace"], q) :
                                              q \in ReceiptQueries(a, b)}
                              IN  /\ queries' = queries
                                         \o <<ReceiptQueries(a, b)>>
                                  /\ requested' = requested \cup hashes
                                  /\ ikeyspace' =
                                        [ikeyspace EXCEPT !["receipt"] =
                                            @ \cup {[transaction_hash |-> h] :
                                                       h \in hashes}]
                         ELSE /\ ikeyspace' =
                                    [ikeyspace EXCEPT ![table] =
                                        @ \cup IngestRows(table, a, b)]
                              /\ UNCHANGED <<queries, requested>>
                      /\ inext' = inext + 1
                      /\ UNCHANGED <<ipc, iexit_code>>
                   \/ /\ ipc' = "aborted"
                      /\ iexit_code' = 1
                      /\ UNCHANGED <<inext, ikeyspace, queries, requested>>
    /\ UNCHANGED <<iargs, tables_to_fill>>
    /\ UNCHANGED <<storeVars, mainVars, writeVars, histRun, histWrite,
                   csvVars, globals>>

\* the end of main: the configuration row is written
IngestFinish ==
    /\ ipc = "configuration"
    /\ ikeyspace' =
          [ikeyspace EXCEPT !["configuration"] =
              Upsert(@, [id |-> "keyspace",
                         block_bucket_size |-> ingest_BLOCK_BUCKET_SIZE,
                         tx_prefix_length |-> ingest_TX_PREFIX_LENGTH])]
    /\ ipc' = "done"
    /\ iexit_code' = 0
    /\ UNCHANGED <<iargs, tables_to_fill, inext, imports, queries, requested>>
    /\ UNCHANGED <<storeVars, mainVars, writeVars, histRun, histWrite,
                   csvVars, globals>>

\* the ranges tried in the entries of -t
IngestRanges == {<<0, MaxBlock>>, <<1, 1>>, <<1, MaxBlock>>, <<0, 2>>}
\* the entries tried: well-formed ones and table names without a range
IngestEntries ==
    {Entry(t, r) : t \in {"block", "transaction", "trace", "receipt"},
                   r \in IngestRanges}
        \cup {Entry("receipt", <<>>), Entry("transaction", <<>>)}
\* the command lines tried: -u, or -t with one or two entries, or with the
\* four tables over one range in any order of transaction and receipt
IngestArgSet ==
    {[until_date |-> TRUE, table_specific |-> <<>>]}
    \cup {[until_date |-> FALSE, table_specific |-> <<e>>] :
             e \in IngestEntries}
    \cup {[until_date |-> FALSE, table_specific |-> <<e, f>>] :
             e \in IngestEntries, f \in IngestEntries}
    \cup {[until_date |-> FALSE,
           table_specific |-> <<Entry("trace", r), Entry(t, r), Entry(u, r)>>] :
             r \in IngestRanges, t \in {"receipt", "transaction"},
             u \in {"receipt", "transaction"}}

\* the bulk ingest is started on a keyspace that is empty or holds the
\* blocks, transactions and traces of the blocks 0..p; the other programs
\* are not running
InitIngest ==
    /\ bucket_size = BLOCK_BUCKET_SIZE
    /\ store = [t \in Tables |-> {}]
    /\ configuration = {}
    /\ args \in {a \in ArgSet : a.info}
    /\ runs = 0
    /\ first_run = <<None, None>>
    /\ resumed = TRUE
    /\ pc = "main"
    /\ last_ingested_block = None
    /\ start_block = 0
    /\ end_block = 0
    /\ block_id = 0
    /\ current_end_block = 0
    /\ items = NoItems
    /\ exit_code = None
    /\ wpc = "idle"
    /\ wtable = "log"
    /\ parameters = <<>>
    /\ ctr = 0
    /\ results = <<>>
    /\ i = 0
    /\ windows = <<>>
    /\ wresult = "none"
    /\ attempts = 0
    /\ streak = 0
    /\ sleeps = 0
    /\ last_failed = {}
    /\ retried = {}
    /\ raised = 0
    /\ fatal = FALSE
    /\ after_fatal = FALSE
    /\ xpc = "idle"
    /\ block_list = <<>>
    /\ tx_list = <<>>
    /\ trace_list = <<>>
    /\ logs_list = <<>>
    /\ csv_files = NoFiles
    /\ ExporterNotStarted
    /\ ipc = "main"
    /\ iargs \in IngestArgSet
    /\ tables_to_fill = <<>>
    /\ inext = 0
    /\ \E p \in (-1)..MaxBlock :
          ikeyspace =
              [t \in {"block", "transaction", "trace", "receipt",
                      "configuration"} |->
                  IF t \in {"block", "transaction", "trace"}
                  THEN IngestRows(t, 0, p) ELSE {}]
    /\ imports = <<>>
    /\ queries = <<>>
    /\ requested = {}
    /\ iexit_code = None

IngestStep == IngestMain \/ ImportNext \/ IngestFinish
SpecIngest == InitIngest /\ [][IngestStep]_vars


(* ------------------------------ properties ----------------------------- *)

\* the block ids of the rows of a table
BlockIdsIn(T) == {row.block_id : row \in T}
\* the ids covered by the windows entered so far
Covered == {b \in start_block..end_block :
               \E j \in DOMAIN windows : windows[j][1] <= b /\ b <= windows[j][2]}
\* the window loop of the current run is over
LoopOver == pc \in {"configuration", "done"} \/ (pc = "aborted" /\ ~fatal)

\* C1: the windows of a run are [start + j*w, min(end, start + (j+1)*w - 1)],
\* j = 0, 1, ...: pairwise disjoint, all but possibly the last of exactly
\* window_size ids, the last clipped to end_block, and once the loop is over
\* their union is exactly [start_block, end_block].
C1_WindowsTile ==
    LET w == args.batch_size
        n == Len(windows)
    IN  /\ \A j \in 1..n :
              /\ windows[j][1] = start_block + (j - 1) * w
              /\ windows[j][2] = Min(end_block, start_block + j * w - 1)
              /\ windows[j][1] <= windows[j][2]
              /\ windows[j][2] <= end_block
        /\ \A j \in 1..n : \A k \in 1..n :
              j < k => windows[j][2] < windows[k][1]
        /\ \A j \in 1..(n - 1) : windows[j][2] - windows[j][1] + 1 = w
        /\ LoopOver =>
              /\ n >= 1
              /\ windows[1][1] = start_block
              /\ windows[n][2] = end_block
              /\ Covered = start_block..end_block

\* a finished run of several windows whose last window is clipped
C1_Witness ==
    /\ pc = "done"
    /\ Len(windows) >= 2
    /\ start_block > 0
    /\ windows[Len(windows)][2] - windows[Len(windows)][1] + 1 < args.batch_size

\* C2: after a run that died while ingesting, a run restarted without -s (and
\* reaching at least the same end block) that completes leaves a block row
\* for every id from the first run's start_block to its end_block.
C2_ResumeSkipsNothing ==
    (/\ runs = 2
     /\ resumed
     /\ pc = "done"
     /\ first_run[1] # None
     /\ end_block >= first_run[2])
    => \A b \in first_run[1]..first_run[2] : b \in BlockIdsIn(store["block"])

\* C3: with the block table in any state, the resolver returns None when the
\* table is empty and otherwise the largest block_id among the rows of the
\* highest block_id_group present; rows of lower groups do not matter.
C3_Resolve ==
    pc = "info" =>
        LET T == store["block"]
        IN  IF T = {}
            THEN last_ingested_block = None
            ELSE \E top \in T :
                    /\ \A row \in T : row.block_id_group <= top.block_id_group
                    /\ \A row \in T :
                          row.block_id_group = top.block_id_group
                              => row.block_id <= top.block_id
                    /\ last_ingested_block = top.block_id

\* a table whose lower group holds a larger block_id than the one resolved
C3_Witness ==
    /\ pc = "info"
    /\ last_ingested_block # None
    /\ \E row \in store["block"] : row.block_id > last_ingested_block


\* the indices the last concurrent pass reported failed
FailedIndices == {k \in DOMAIN results : ~results[k]}
\* no store operation of the current write call succeeded: no pass returned,
\* or the pass reported every row failed and no retry succeeded since
NothingSucceeded ==
    \/ results = <<>>
    \/ (FailedIndices = DOMAIN results /\ last_failed = DOMAIN results)
\* the individual executions of the current write call that threw, while no
\* retry has succeeded yet
RowThrows == attempts - sleeps - 1

\* C4 (as stated): a write call against a store that always fails raises
\* after exactly retry_thsh + 1 attempts, whether the failures are those of
\* the whole batch or of an individual row.
C4_RaisesAfterBudgetPlusOne ==
    (wresult = "raised" /\ NothingSucceeded) => attempts = retry_thsh + 1

\* C4 (amended): when the first k <= retry_thsh submissions throw and the
\* next one reports every row written, the call returns after exactly k + 1
\* submissions; when every submission throws it raises after exactly
\* retry_thsh + 1 submissions; when a pass returns reporting every row
\* failed and no retry succeeds, it raises after exactly retry_thsh + 2
\* store operations, the reporting pass not being counted; and it never
\* raises after fewer than retry_thsh + 1 store operations.
C4_AttemptsToOutcome ==
    /\ (wresult = "returned" /\ FailedIndices = {}) =>
           (attempts = sleeps + 1 /\ sleeps <= retry_thsh)
    /\ (wresult = "raised" /\ results = <<>>) =>
           (attempts = retry_thsh + 1 /\ sleeps = retry_thsh)
    /\ (wresult = "raised" /\ results # <<>> /\ NothingSucceeded) =>
           attempts = retry_thsh + 2
    /\ wresult = "raised" => attempts >= retry_thsh + 1

\* a row that failed in the pass and in every retry, with no batch failure
C4_Witness ==
    /\ wresult = "raised"
    /\ results # <<>>
    /\ NothingSucceeded
    /\ sleeps = 0

\* C5: when cassandra_ingest returns, every row of the batch is stored and
\* no row's latest write attempt is a failed one.
C5_ReturnMeansAllWritten ==
    wpc = "returned" =>
        /\ RowSet(RowsFor(wtable, items)) \subseteq store[wtable]
        /\ last_failed = {}
        /\ FailedIndices \subseteq retried

\* a call that returns after a batch failure and the retries of two rows
C5_Witness ==
    /\ wpc = "returned"
    /\ sleeps > 0
    /\ Cardinality(retried) >= 2

\* C6: after a pass that reports failed rows, exactly those rows are executed
\* again, one at a time in the order of the results, each until it succeeds
\* before the next one is tried, with no backoff sleep; rows reported
\* successful are not executed again; when ctr exceeds retry_thsh the last
\* store error is raised.
C6_RowRetries ==
    /\ [](wpc = "retry" =>
            /\ i \in FailedIndices
            /\ retried \subseteq FailedIndices
            /\ \A k \in FailedIndices :
                  /\ k < i => (k \in retried /\ k \notin last_failed
                                 /\ parameters[k] \in store[wtable])
                  /\ k > i => (k \notin retried /\ k \in last_failed)
            /\ ~Exceeded(ctr))
    /\ []((wpc = "returned" /\ results # <<>>) => retried = FailedIndices)
    /\ []((wpc = "raised" /\ results # <<>>) =>
            /\ Exceeded(ctr)
            /\ raised = attempts
            /\ i \in retried
            /\ i \in last_failed)
    /\ [][wpc = "retry" =>
            /\ sleeps' = sleeps
            /\ wpc' \in {"retry", "returned", "raised"}
            /\ i' >= i
            /\ (i' # i => i \notin last_failed')]_vars

\* the third row is retried after the first was, the second having succeeded
\* in the pass
C6_Witness ==
    /\ wpc = "retry"
    /\ Len(results) = 3
    /\ FailedIndices = {1, 3}
    /\ i = 3
    /\ ctr = retry_thsh

\* C7: when the concurrent submission throws, the engine sleeps once and
\* resubmits the entire batch; the failure is counted on the counter the row
\* failures are counted on, so batch and row failures with no success in
\* between exhaust one budget.
C7_BatchRetries ==
    /\ wpc \in {"submit", "sleep", "retry"} =>
           parameters = RowsFor(wtable, items)
    /\ wpc = "submit" => (sleeps = attempts /\ ctr = attempts)
    /\ wpc = "sleep" =>
           (sleeps + 1 = attempts /\ ctr = attempts /\ ~Exceeded(ctr))
    /\ (wpc = "retry" /\ NothingSucceeded) => ctr = sleeps + RowThrows
    /\ (wpc = "raised" /\ results # <<>> /\ NothingSucceeded) =>
           sleeps + RowThrows = retry_thsh + 1

\* a batch failure and row failures that together exhaust the budget
C7_Witness ==
    /\ wpc = "raised"
    /\ results # <<>>
    /\ NothingSucceeded
    /\ sleeps >= 1
    /\ RowThrows >= 1

C9_ExhaustionIsFatal ==
    /\ [](fatal =>
            /\ pc = "aborted"
            /\ wpc = "raised"
            /\ exit_code # None
            /\ exit_code # 0
            /\ ~after_fatal)
    /\ [][fatal => UNCHANGED <<store, configuration>>]_vars
    /\ [][\A t \in Tables : store[t] \subseteq store'[t]]_vars

\* the transaction write of the second window raised; the rows of the first
\* window are stored
C9_Witness ==
    /\ fatal
    /\ pc = "aborted"
    /\ Len(windows) = 2
    /\ wtable = "transaction"
    /\ store["block"] # {}
    /\ configuration = {}

\* every window of the range has been written to every table
RangeWritten ==
    /\ BlockIdsIn(store["block"]) = start_block..end_block
    /\ BlockIdsIn(store["trace"]) = start_block..end_block
    /\ BlockIdsIn(store["transaction"]) =
           {b \in start_block..end_block : HasTx(b)}
    /\ BlockIdsIn(store["log"]) = {b \in start_block..end_block : HasTx(b)}

\* C10: every run ends, whatever the store does: each write call returns or
\* raises after finitely many attempts, and the run has then either written
\* the whole range or aborted on an exhausted budget.
C10_RunEnds ==
    /\ <>(pc \in Ended)
    /\ [](wpc \in {"submit", "sleep", "retry"} =>
            attempts <= (MaxBatch + 1) * (retry_thsh + 1))
    /\ [](pc \in {"done", "aborted"} => (RangeWritten \/ fatal))

\* a run that ended on a write call that had backed off and retried rows
C10_Witness ==
    /\ pc = "aborted"
    /\ fatal
    /\ sleeps > 0
    /\ retried # {}

(* ------------------------ properties of a window ----------------------- *)

\* the ids of the window being processed
Window == block_id..current_end_block
\* the ids of the window that have a row in table t once t is written
WindowIds(t) ==
    IF t \in {"log", "transaction"} THEN {b \in Window : HasTx(b)} ELSE Window
\* the ids of the window that have a row in table t now
StoredOfWindow(t) == BlockIdsIn(store[t]) \cap Window
\* the steps of a window, in the order of the claim
StepOrder ==
    <<"export_bt", "export_rl", "export_tr", "enrich", "ingest_logs",
      "ingest_traces", "ingest_transactions", "ingest_blocks", "count">>
StepOf(p) == CHOOSE k \in DOMAIN StepOrder : StepOrder[k] = p
\* the step that writes table t
WriteStep(t) ==
    CASE t = "log" -> 5 [] t = "trace" -> 6 [] t = "transaction" -> 7
      [] t = "block" -> 8
InWindow == pc \in {StepOrder[k] : k \in DOMAIN StepOrder}
Hashes(txs) == {txs[k].hash : k \in DOMAIN txs}
HashesOf(rs) == {rs[k].transaction_hash : k \in DOMAIN rs}
BlocksOf(ts) == {ts[k].block_number : k \in DOMAIN ts}

\* C11: within a window the steps follow one another in the order blocks and
\* transactions, receipts and logs (of exactly the transactions extracted),
\* traces (those of the genesis block and of the fork included), enrichment,
\* then the writes of logs, traces, transactions, blocks; a step starts when
\* the one before it has finished: what a later step produces is absent
\* while an earlier one runs, and what an earlier one produced is complete.
C11_StepOrder ==
    /\ [](InWindow =>
            LET k == StepOf(pc)
            IN  /\ (k >= 2) =>
                      /\ {items.blocks[j].number : j \in DOMAIN items.blocks}
                            = Window
                      /\ BlocksOf(items.txs) = {b \in Window : HasTx(b)}
                /\ (k <= 2) =>
                      /\ BlocksOf(items.receipts) \cap Window = {}
                      /\ BlocksOf(items.logs) \cap Window = {}
                /\ (k >= 3) =>
                      /\ HashesOf(items.receipts) = Hashes(items.txs)
                      /\ Len(items.receipts) = Len(items.txs)
                      /\ HashesOf(items.logs) \subseteq Hashes(items.txs)
                /\ (k <= 3) => BlocksOf(items.traces) \cap Window = {}
                /\ (k >= 4) =>
                      /\ BlocksOf(items.traces) = Window
                      /\ \A j \in DOMAIN items.traces :
                            /\ items.traces[j].block_number = 0 =>
                                  items.traces[j].trace_type = Str(<<"genesis">>)
                            /\ items.traces[j].block_number = DaoForkBlock =>
                                  items.traces[j].trace_type = Str(<<"daofork">>)
                /\ (k <= 4) => BlocksOf(items.enriched_txs) \cap Window = {}
                /\ (k >= 5) =>
                      Hashes(items.enriched_txs) = Hashes(items.txs)
                /\ (k <= 4) => wpc = "idle"
                /\ \A t \in Tables :
                      /\ WriteStep(t) < k => StoredOfWindow(t) = WindowIds(t)
                      /\ WriteStep(t) > k => StoredOfWindow(t) = {})
    /\ [][(InWindow /\ pc' # pc) =>
            \/ (pc' = "aborted" /\ StepOf(pc) \in 5..8)
            \/ (pc' = "loop" /\ pc = "count")
            \/ (pc # "count" /\ pc' = StepOrder[StepOf(pc) + 1])]_vars
    /\ [][\A t \in Tables :
            store'[t] # store[t] => (InWindow /\ StepOf(pc) = WriteStep(t))]_vars
    /\ [][items' # items => (wpc = "idle" /\ StepOf(pc) \in 1..4)]_vars

\* the block write of a window that holds the genesis block and the fork
\* block is retried after a batch failure
C11_Witness ==
    /\ pc = "ingest_blocks"
    /\ wpc = "submit"
    /\ sleeps > 0
    /\ block_id = 0
    /\ current_end_block >= DaoForkBlock

\* the ids of window j that have a row in table t once t is written
IdsOfWindow(j, t) ==
    LET W == windows[j][1]..windows[j][2]
    IN  IF t \in {"log", "transaction"} THEN {b \in W : HasTx(b)} ELSE W
\* the block numbers of all the items held
BlocksOfItems ==
    {items.blocks[j].number : j \in DOMAIN items.blocks}
        \cup BlocksOf(items.txs) \cup BlocksOf(items.receipts)
        \cup BlocksOf(items.logs) \cup BlocksOf(items.traces)
        \cup BlocksOf(items.enriched_txs)

\* C12: the windows are entered in increasing id order, each starting right
\* after the one before it; when a window is entered the four table writes of
\* every earlier window have returned, so all their rows are stored; and
\* every extraction and every store operation concerns the window entered
\* last, never two windows at a time.
C12_WindowsInSequence ==
    /\ [](\A j \in 1..(Len(windows) - 1) :
            /\ windows[j + 1][1] = windows[j][2] + 1
            /\ \A t \in Tables :
                  {b \in BlockIdsIn(store[t]) :
                      windows[j][1] <= b /\ b <= windows[j][2]}
                        = IdsOfWindow(j, t))
    /\ [](windows # <<>> =>
            /\ windows[1][1] = start_block
            /\ (InWindow =>
                   Window = windows[Len(windows)][1]..windows[Len(windows)][2])
            /\ (wpc \in {"submit", "sleep", "retry"} =>
                   \A k \in DOMAIN parameters : parameters[k].block_id \in Window))
    /\ [][windows' # windows =>
            /\ Len(windows') = Len(windows) + 1
            /\ wpc = "idle"
            /\ pc = "loop"]_vars
    /\ [][\A t \in Tables :
            BlockIdsIn(store'[t] \ store[t]) \subseteq Window]_vars
    /\ [][items' # items => BlocksOfItems' \subseteq Window]_vars

\* the third window is being written, after a retried write in the run
C12_Witness ==
    /\ Len(windows) = 3
    /\ pc = "ingest_traces"
    /\ wpc = "retry"
    /\ args.batch_size = 1
    /\ start_block = 1

\* the checkpoint of a non-empty block table: the largest block_id among the
\* rows of the highest block_id_group
IsCheckpoint(T, c) ==
    \E top \in T :
       /\ \A row \in T : row.block_id_group <= top.block_id_group
       /\ \A row \in T : row.block_id_group = top.block_id_group
                            => row.block_id <= top.block_id
       /\ c = top.block_id

\* C13: without -s a run starts at checkpoint + 1, the checkpoint being the
\* one resolved from the block table, and at 0 when that table is empty;
\* with -s it starts at the id given, whatever the checkpoint is.
C13_ResumePoint ==
    pc \in {"loop", "no_work"} =>
        IF args.start_block # None THEN start_block = args.start_block
        ELSE IF store["block"] = {} THEN start_block = 0
        ELSE IsCheckpoint(store["block"], start_block - 1)

\* a run without -s over a table whose lower group holds a larger id than
\* the checkpoint
C13_Witness ==
    /\ pc = "loop"
    /\ args.start_block = None
    /\ start_block > 0
    /\ \E row \in store["block"] : row.block_id >= start_block

\* C14: a run (without -i) goes from resolving the checkpoint either to
\* NO_WORK, exactly when start_block > end_block, where it ends with exit
\* code 0 having extracted and written nothing, or into the window loop,
\* exactly when start_block <= end_block, where it enters at least one
\* window; DONE is reached from the window loop only.
C14_RunStates ==
    /\ [](pc = "no_work" =>
            /\ start_block > end_block
            /\ exit_code = 0
            /\ \A t \in Tables : store[t] = {}
            /\ configuration = {}
            /\ items = NoItems
            /\ windows = <<>>
            /\ wpc = "idle"
            /\ wresult = "none")
    /\ []((pc \in Running \ {"main"} \/ pc \in {"done", "aborted"}) =>
            start_block <= end_block)
    /\ [](pc \in {"configuration", "done"} => Len(windows) >= 1)
    /\ [][pc # "no_work" /\ pc # "done"]_vars
    /\ [][(pc = "main" /\ ~args.info) => pc' \in {"no_work", "loop"}]_vars
    /\ [][pc' = "done" => pc = "configuration"]_vars
    /\ ((pc = "loop" /\ windows = <<>>) ~> (Len(windows) >= 1))

\* a run whose -s lies beyond its -e
C14_Witness ==
    /\ pc = "no_work"
    /\ args.start_block # None
    /\ args.end_block # None
    /\ start_block > end_block

\* the rows of table t that belong to the blocks of S
RowsOfBlocks(t, S) == {row \in store[t] : row.block_id \in S}

IsFloor(g, n, size) == g * size <= n /\ n < (g + 1) * size
\* row carries a numeric block_id and the bucket id of its block
HasBucket(row) ==
    /\ "block_id" \in DOMAIN row
    /\ row.block_id \in Nat
    /\ "block_id_group" \in DOMAIN row
    /\ IsFloor(row.block_id_group, row.block_id, BLOCK_BUCKET_SIZE)

Populated(v) == v \notin {Null, UNSET_VALUE}
\* the log rows the streaming process hands to cassandra_ingest
StoreLogRows ==
    IF wpc # "idle" /\ wtable = "log" THEN RowSet(parameters) ELSE {}
\* the log rows the exporter has formatted
CsvLogRows == RowSet(logs_list)

\* C17: every log row the transformer produces, in the store pipeline and in
\* the CSV pipeline, has a populated topic0: never None, never the unset
\* marker, also when the raw log has no topics.
C17_Topic0Populated ==
    /\ \A row \in StoreLogRows : Populated(row.topic0)
    /\ \A row \in CsvLogRows : Populated(row.topic0)

\* the store pipeline alone does populate it
C17_StoreTopic0Populated ==
    \A row \in StoreLogRows :
        /\ Populated(row.topic0)
        /\ row.topic0.kind = "bytearray"
        /\ row.topics.elems # <<>> => row.topic0 = row.topics.elems[1]
        /\ row.topics.elems = <<>> => row.topic0 = Bytes(<<>>)


(* ---- C18 ---- *)

\* the exported items the rows of a write call were made from, in the order
\* of the rows
RawItems(tbl) ==
    CASE tbl = "log" -> items.logs
      [] tbl = "trace" -> items.traces
      [] tbl = "transaction" -> items.enriched_txs
      [] tbl = "block" -> items.blocks
\* the hexadecimal columns of a table
BlobColumnsOf(tbl) ==
    CASE tbl = "log" -> LogBlobColumns
      [] tbl = "trace" -> TraceBlobColumns
      [] tbl = "transaction" -> TransactionBlobColumns
      [] tbl = "block" -> BlockBlobColumns
\* the field of the exported item that a column of the row comes from
RawName(tbl, f) ==
    CASE f = "block_hash" /\ tbl = "block" -> "hash"
      [] f = "tx_hash" /\ tbl = "transaction" -> "hash"
      [] f = "tx_hash" /\ tbl \in {"log", "trace"} -> "transaction_hash"
      [] OTHER -> f
\* the columns the transformer computes; the others are handed through
Computed == {"block_id", "block_id_group", "topic0", "topics", "tx_hash_prefix",
             "trace_address"}
\* a byte written as two hexadecimal digits
HexOfByte(b) == <<HexChars[(b \div 16) + 1], HexChars[(b % 16) + 1]>>
\* v is binary, and written in hexadecimal after 0x it is the string raw
IsBinaryOf(v, raw) ==
    /\ v.kind = "bytearray"
    /\ raw.kind = "str"
    /\ Len(raw.text) = 2 + 2 * Len(v.bytes)
    /\ SubSeq(raw.text, 1, 2) = <<"0", "x">>
    /\ \A k \in DOMAIN v.bytes :
          /\ v.bytes[k] \in 0..255
          /\ SubSeq(raw.text, 2 * k + 1, 2 * k + 2) = HexOfByte(v.bytes[k])
\* the rows a write call has been handed
HandedRows == IF wpc = "idle" THEN <<>> ELSE parameters

\* C18: no row handed to the write engine contains None: a column whose raw
\* value is None carries the unset marker, and a hexadecimal column whose raw
\* value is not None carries the bytes its 0x-prefixed string denotes.
C18_NoStructuralNull ==
    \A k \in DOMAIN HandedRows :
        LET row == HandedRows[k]
            raw == RawItems(wtable)[k]
        IN  /\ \A f \in DOMAIN row \ IntColumns : row[f] # Null
            /\ \A f \in DOMAIN row \ Computed :
                  LET r == raw[RawName(wtable, f)]
                  IN  IF r = Null THEN row[f] = UNSET_VALUE
                      ELSE IF f \in BlobColumnsOf(wtable)
                           THEN IsBinaryOf(row[f], r)
                           ELSE row[f] = r
            /\ "topic0" \in DOMAIN row => row.topic0.kind = "bytearray"
            /\ "topics" \in DOMAIN row =>
                  LET tpcs == TopicsOf(raw)
                  IN  /\ row.topics.kind = "list"
                      /\ Len(row.topics.elems) = Len(tpcs)
                      /\ \A t \in DOMAIN tpcs :
                            IsBinaryOf(row.topics.elems[t], tpcs[t])
            /\ "trace_address" \in DOMAIN row =>
                  (row.trace_address = UNSET_VALUE <=> raw.trace_address = Null)

\* a contract creation is handed over: its to_address is None in the export
\* and the unset marker in the row, its hash has become bytes
C18_Witness ==
    /\ wpc = "submit"
    /\ wtable = "transaction"
    /\ \E k \in DOMAIN parameters :
          /\ items.enriched_txs[k].to_address = Null
          /\ parameters[k].to_address = UNSET_VALUE
          /\ parameters[k].tx_hash.kind = "bytearray"
          /\ Len(parameters[k].tx_hash.bytes) = 3


(* ---- C19 ---- *)

\* the configuration recorded for the keyspace disagrees with the constants
\* of the run
Mismatch == configuration # {} /\ ConfigRow \notin configuration

\* C19: a run whose bucket size or prefix length disagrees with the recorded
\* configuration writes no row, leaves the recorded configuration as it is,
\* and ends with a non-zero exit code.
C19_MismatchRejected ==
    [][Mismatch =>
          /\ store' = store
          /\ configuration' = configuration
          /\ pc' \in Ended => exit_code' \notin {0, None}]_vars


(* ---- C20 ---- *)

\* every table holds the rows of the whole range of the run
RangeStored ==
    \A t \in Tables :
        RowSet(RowsFor(t, ExportedItems(start_block, end_block))) \subseteq store[t]

\* C20: the configuration table changes only in the step that executes the
\* upsert, which is taken at most once in a run, is the step by which a run
\* reaches DONE, and is taken after the write calls of all windows, the last
\* one included, have returned; the table then holds the one record of the
\* keyspace with the constants of the run, and executing the upsert on a
\* table that holds this record already leaves the table as it is.
C20_ConfigurationOnce ==
    [][/\ configuration' # configuration => pc = "configuration" /\ pc' = "done"
       /\ pc' = "done" =>
             /\ pc = "configuration"
             /\ configuration' = {ConfigRow}
       /\ pc = "configuration" =>
             /\ pc' \in {"done", "aborted"}
             /\ wpc = "idle"
             /\ block_id > end_block
             /\ windows # <<>>
             /\ windows[Len(windows)][2] = end_block
             /\ RangeStored
       /\ pc' = "configuration" => pc = "loop"
       /\ pc \in Ended => pc' = pc
       /\ (pc = "configuration" /\ pc' = "done"
             /\ configuration = {ConfigRow}) => configuration' = configuration
      ]_vars

\* a run done after two windows or more, on a keyspace that held the record
\* before
C20_Witness ==
    /\ pc = "done"
    /\ last_ingested_block # None
    /\ Len(windows) >= 2
    /\ configuration = {ConfigRow}


(* ---- C21 ---- *)

\* in the window being processed receipts were exported and a transaction
\* has none
MissingReceipt ==
    /\ pc \notin {"main", "loop", "export_bt", "export_rl"}
    /\ \E k \in DOMAIN items.txs :
          items.txs[k].hash \notin HashesOf(items.receipts)

\* C21: when the receipts exported for a window lack the receipt of one of
\* its transactions, enrichment raises and the run ends there with a
\* non-zero exit code: no ingest function is reached, no table and no
\* configuration record is written from then on, no table holds a row of
\* the window, and no further window is entered or extracted.
C21_MissingReceiptIsFatal ==
    /\ [](MissingReceipt =>
             /\ pc \in {"export_tr", "enrich", "aborted"}
             /\ wpc = "idle"
             /\ items.enriched_txs = <<>>
             /\ \A t \in Tables : StoredOfWindow(t) = {}
             /\ pc = "aborted" => exit_code = 1)
    /\ [][MissingReceipt =>
             /\ store' = store
             /\ configuration' = configuration
             /\ windows' = windows
             /\ block_id' = block_id
             /\ pc = "enrich" => pc' = "aborted"
             /\ pc = "aborted" => UNCHANGED vars]_vars

\* the run was aborted in its second window by a missing receipt; the first
\* window is stored
C21_Witness ==
    /\ MissingReceipt
    /\ pc = "aborted"
    /\ Len(windows) = 2
    /\ store["block"] # {}
    /\ configuration = {}


(* ---- C22 ---- *)

\* the block_id_group values present in table t
GroupsIn(t) == {row.block_id_group : row \in store[t]}

BlockKeysOfStore ==
    {"type", "number", "hash", "parent_hash", "nonce", "sha3_uncles",
     "logs_bloom", "transactions_root", "state_root", "receipts_root",
     "miner", "extra_data"}
BlockKeysOfCsv == {"type", "number", "hash"}
AllCarry(blocks, keys) ==
    \A k \in DOMAIN blocks : keys \subseteq DOMAIN blocks[k]
\* row is the raw block renamed; the hash is compared by Same
Renamed(row, raw, size, Same(_, _)) ==
    /\ row.block_id = raw.number
    /\ Same(row.block_hash, raw.hash)
    /\ IsFloor(row.block_id_group, raw.number, size)
    /\ DOMAIN row \cap {"number", "hash", "type"} = {}
    /\ DOMAIN row = (DOMAIN raw \ {"number", "hash", "type"})
                        \cup {"block_id", "block_hash", "block_id_group"}
SameText(a, b) == a = b

\* C23: the block transform makes one row of every raw block that carries
\* the keys it needs: block_id is the number, block_hash the hash (as bytes
\* in the store pipeline, as the same text in the CSV pipeline),
\* block_id_group the bucket of the number, and the keys number, hash and
\* type are gone. When a raw block lacks one of the keys the transform
\* needs, the transform raises: no row is handed on and the run ends.
C23_BlockTransform ==
    /\ [](wpc # "idle" /\ wtable = "block" =>
             /\ Len(parameters) = Len(items.blocks)
             /\ \A k \in DOMAIN parameters :
                   Renamed(parameters[k], items.blocks[k], BLOCK_BUCKET_SIZE,
                           IsBinaryOf))
    /\ [](xpc = "flush" =>
             /\ Len(block_list) = Len(items.blocks)
             /\ \A k \in DOMAIN block_list :
                   Renamed(block_list[k], items.blocks[k],
                           format_block_bucket_size, SameText))
    /\ [][(pc = "ingest_blocks" /\ wpc = "idle" /\ (pc' # pc \/ wpc' # wpc)) =>
             IF AllCarry(items.blocks, BlockKeysOfStore)
             THEN wpc' = "submit" /\ pc' = pc
             ELSE /\ pc' = "aborted"
                  /\ exit_code' = 1
                  /\ wpc' = "idle"
                  /\ parameters' = <<>>]_vars
    /\ [][(xpc = "format" /\ xpc' # xpc) =>
             IF AllCarry(items.blocks, BlockKeysOfCsv)
             THEN xpc' = "flush"
             ELSE xpc' = "aborted" /\ block_list' = <<>>]_vars

\* two blocks of different buckets have been transformed in the store
\* pipeline
C23_Witness ==
    /\ wpc = "submit"
    /\ wtable = "block"
    /\ Len(parameters) >= 2
    /\ \E j, k \in DOMAIN parameters :
          parameters[j].block_id_group # parameters[k].block_id_group
    /\ \A k \in DOMAIN parameters :
          parameters[k].block_hash.kind = "bytearray"


(* ---- C24 ---- *)

\* the rows with a bucket id that a write call has been handed
BucketedRows ==
    IF wpc # "idle" /\ wtable \in Bucketed THEN RowSet(parameters) ELSE {}
\* an ingest function that computes bucket ids is about to be called with
\* an item
BucketCall ==
    /\ pc \in IngestPhases
    /\ TableOf(pc) \in Bucketed
    /\ wpc = "idle"
    /\ ItemsOf(TableOf(pc), items) # <<>>
    /\ \A k \in DOMAIN items.blocks : BlockKeysOfStore \subseteq DOMAIN items.blocks[k]

RECURSIVE HexDigits(_)
HexDigits(bytes) ==
    IF bytes = <<>> THEN <<>>
    ELSE HexOfByte(Head(bytes)) \o HexDigits(Tail(bytes))
\* prefix is made of the first len characters that follow 0x in hash
IsPrefixOf(prefix, hash, len) ==
    /\ prefix.kind = "str"
    /\ Len(prefix.text) = len
    /\ SubSeq(hash.text, 1, 2) = <<"0", "x">>
    /\ \A k \in 1..len : prefix.text[k] = hash.text[2 + k]
\* the transaction rows handed to the store's write engine
TxRows ==
    IF wpc # "idle" /\ wtable = "transaction" THEN parameters ELSE <<>>

\* C25: in every transaction row tx_hash_prefix is the first
\* tx_hash_prefix_len hexadecimal characters of the transaction's hash after
\* the 0x marker (which are the first digits of the row's binary tx_hash), in
\* the rows handed to the store, in the stored rows, in the rows formatted
\* for the CSV file and in the lines written to it; the length is the same
\* for all of them.
C25_HashPrefix ==
    /\ \A k \in DOMAIN TxRows :
          /\ IsPrefixOf(TxRows[k].tx_hash_prefix, items.enriched_txs[k].hash,
                        TX_HASH_PREFIX_LEN)
          /\ SubSeq(HexDigits(TxRows[k].tx_hash.bytes), 1, TX_HASH_PREFIX_LEN)
                = TxRows[k].tx_hash_prefix.text
    /\ \A row \in store["transaction"] :
          /\ Len(row.tx_hash_prefix.text) = TX_HASH_PREFIX_LEN
          /\ SubSeq(HexDigits(row.tx_hash.bytes), 1, TX_HASH_PREFIX_LEN)
                = row.tx_hash_prefix.text
    /\ \A k \in DOMAIN tx_list :
          /\ IsPrefixOf(tx_list[k].tx_hash_prefix, items.enriched_txs[k].hash,
                        csv_TX_HASH_PREFIX_LEN)
          /\ tx_list[k].tx_hash = items.enriched_txs[k].hash
    /\ \A k \in DOMAIN csv_files.tx :
          /\ Len(csv_files.tx[k].tx_hash_prefix) = csv_TX_HASH_PREFIX_LEN
          /\ csv_files.tx[k].tx_hash_prefix
                = SubSeq(csv_files.tx[k].tx_hash, 3, 2 + csv_TX_HASH_PREFIX_LEN)

\* two transactions with different prefixes are handed to the store, and
\* have been written to the CSV file
C25_Witness ==
    /\ Len(TxRows) >= 2
    /\ TxRows[1].tx_hash_prefix # TxRows[2].tx_hash_prefix
    /\ Len(csv_files.tx) >= 2
    /\ csv_files.tx[1].tx_hash_prefix # csv_files.tx[2].tx_hash_prefix


(* ---- C26 ---- *)

\* the paths tried, written with the delimiter sep
TextOfPath(path, sep) ==
    CASE path = List(<<>>) -> <<>>
      [] path = List(<<0>>) -> <<"0">>
      [] path = List(<<0, 1>>) -> <<"0", sep, "1">>
      [] path = List(<<1, 10>>) -> <<"1", sep, "1", "0">>
\* the trace rows handed to the store's write engine
TraceRows == IF wpc # "idle" /\ wtable = "trace" THEN parameters ELSE <<>>
\* the trace_address of the rows is the path of the items, written with sep,
\* and the marker for an absent one
Serialized(rows, sep, marker) ==
    \A k \in DOMAIN rows :
        rows[k].trace_address =
            IF items.traces[k].trace_address = Null THEN marker
            ELSE Str(TextOfPath(items.traces[k].trace_address, sep))
\* an absent trace address and an empty path are told apart in the rows;
\* Field gives the trace_address of a row
Distinguishable(rows, Field(_)) ==
    \A j, k \in DOMAIN rows :
        (/\ items.traces[j].trace_address = Null
         /\ items.traces[k].trace_address = List(<<>>)) =>
            Field(rows[j]) # Field(rows[k])
TraceAddressOf(row) == row.trace_address

NothingExported ==
    /\ xwindows = <<>>
    /\ xdirs = {}
    /\ \A k \in DOMAIN FileKinds : csv_files[FileKinds[k]] = <<>>

\* a is not a multiple of b (of 0 only 0 is a multiple)
NotMultiple(a, b) == IF b = 0 THEN a # 0 ELSE a % b # 0

\* C27: in the CSV export, a run whose file batch size is not a multiple of
\* the extraction batch size, or whose partition batch size is not a multiple
\* of the file batch size, exits with a non-zero code before any window is
\* extracted and before any directory or file is written: the step that
\* leaves the start of main ends the run with a non-zero code, and from then
\* on nothing is extracted, made or written and the files are as they were.
C27_SizesChecked ==
    [][(\/ NotMultiple(xargs.file_batch_size, xargs.batch_size)
        \/ NotMultiple(xargs.partition_batch_size, xargs.file_batch_size))
         => /\ xpc' \in {"main", "exited", "aborted"}
            /\ xpc' # "main" => (xexit_code' # None /\ xexit_code' > 0)
            /\ NothingExported'
            /\ xfiles' = xfiles]_vars

\* a run whose file batch size is a multiple of its batch size but whose
\* partition batch size is not a multiple of the file batch size has exited
C27_Witness ==
    /\ xpc = "exited"
    /\ xexit_code = 1
    /\ xargs.batch_size > 0
    /\ xargs.file_batch_size % xargs.batch_size = 0
    /\ xargs.file_batch_size > 0
    /\ xargs.partition_batch_size % xargs.file_batch_size # 0


(* ---- C28 ---- *)

\* the block table holds a row of window k of the run
BlockRowOfWindow(k) ==
    \E r \in store["block"] :
        windows[k][1] <= r.block_id /\ r.block_id <= windows[k][2]
\* every row of table t that window j gives is stored
WindowStored(j, t) ==
    RowSet(RowsFor(t, ExportedItems(windows[j][1], windows[j][2])))
        \subseteq store[t]
\* the positions of main before the block write of the window
BeforeBlockWrite ==
    ExportPhases \cup {"ingest_logs", "ingest_traces", "ingest_transactions"}

\* C28: in a run that is the only writer of a fresh keyspace, in every
\* reachable state, if the block table holds any row of window k then the
\* log, trace and transaction writes of window k have returned, so every
\* log, trace and transaction row of window k and of every earlier window of
\* the run is stored: the block table is never ahead of the other tables.
C28_BlockTableLast ==
    \A k \in DOMAIN windows :
        BlockRowOfWindow(k) =>
            /\ (k = Len(windows) => pc \notin BeforeBlockWrite)
            /\ \A j \in 1..k :
                  \A t \in {"log", "trace", "transaction"} : WindowStored(j, t)

\* the block write of the second window is being retried with a part of the
\* window's block rows stored, and the window has log and transaction rows
C28_Witness ==
    /\ Len(windows) = 2
    /\ pc = "ingest_blocks"
    /\ wpc = "retry"
    /\ BlockRowOfWindow(2)
    /\ ~WindowStored(2, "block")
    /\ RowsFor("log", ExportedItems(windows[2][1], windows[2][2])) # <<>>


(* ---- C29 ---- *)

\* the step is an individual execution of a row that throws with the budget
\* used up: the failure makes ctr exceed retry_thsh
ExhaustingRowFailure ==
    /\ wpc = "retry"
    /\ attempts' # attempts
    /\ streak' # 0
    /\ ctr + 1 > retry_thsh

\* C29: when the retry of a row exhausts the budget inside a batch attempt,
\* the error leaves the write call at once: the failing execution is the
\* last store operation of the call, and no backoff sleep, no resubmission of
\* the batch and no retry of a row follows it.
C29_RowExhaustionLeavesAtOnce ==
    /\ [][ExhaustingRowFailure =>
            /\ wpc' = "raised"
            /\ wresult' = "raised"
            /\ raised' = attempts'
            /\ sleeps' = sleeps]_vars
    /\ [][wpc = "raised" =>
            /\ wpc' = "raised"
            /\ attempts' = attempts
            /\ sleeps' = sleeps
            /\ store' = store]_vars

\* the retry of the second failed row of a batch has exhausted the budget,
\* after the batch was resubmitted once
C29_Witness ==
    /\ wpc = "raised"
    /\ results # <<>>
    /\ i > 1
    /\ sleeps > 0
    /\ last_failed # {}


(* ---- C30 ---- *)

\* every row of T carries the bucket group of its id for the size given
BucketedWith(T, size) ==
    \A r \in T : r.block_id_group = r.block_id \div size
\* the highest block id of the whole table, None when it is empty
MaxIdOf(T) == Max({None} \cup BlockIdsIn(T))

\* C30: if every row of the block table was written with block_id_group =
\* floor(block_id / bucket_size) for one fixed bucket_size > 0, then the
\* checkpoint resolved from the table is the maximum block_id over the whole
\* table, not only over its highest group (None for an empty table); main
\* resolves that value at its start; and during a run the checkpoint
\* resolved from the block table never decreases.
C30_CheckpointIsMaximum ==
    /\ []((\E size \in 1..(MaxBlock + 1) : BucketedWith(store["block"], size))
            => get_last_ingested_block(store["block"])
                   = MaxIdOf(store["block"]))
    /\ [][(pc = "main" /\ pc' # "main") =>
             last_ingested_block' = MaxIdOf(store["block"])]_vars
    /\ [][get_last_ingested_block(store'["block"])
             >= get_last_ingested_block(store["block"])]_vars

\* a run resumed at a checkpoint that is the highest id of a table with a
\* gap and several groups, the highest group holding several rows, and the
\* checkpoint has risen since
C30_Witness ==
    /\ last_ingested_block # None
    /\ last_ingested_block < MaxIdOf(store["block"])
    /\ Cardinality(PartitionGroups(store["block"])) > 1
    /\ \E b \in 0..last_ingested_block : b \notin BlockIdsIn(store["block"])
    /\ \E r \in store["block"] :
          /\ r.block_id_group = Max(PartitionGroups(store["block"]))
          /\ r.block_id < MaxIdOf(store["block"])


(* ---- C31 ---- *)

\* the sizes pass the two checks of main
SizesPass(a) ==
    /\ a.batch_size > 0
    /\ a.file_batch_size > 0
    /\ a.file_batch_size % a.batch_size = 0
    /\ a.partition_batch_size % a.file_batch_size = 0
\* ... and are all positive
SizesPositive(a) == SizesPass(a) /\ a.partition_batch_size > 0

BuffersEmpty ==
    /\ block_list = <<>>
    /\ tx_list = <<>>
    /\ trace_list = <<>>
    /\ logs_list = <<>>
\* the lines of the file of one kind for the blocks a..b
LinesOf(kind, a, b) ==
    CASE kind = "trace" ->
             write_csv(format_traces(ExportedItems(a, b).traces), TRACE_HEADER)
      [] kind = "tx" ->
             write_csv(format_transactions(ExportedItems(a, b).enriched_txs),
                       TX_HEADER)
      [] kind = "block" ->
             write_csv(format_blocks(ExportedItems(a, b).blocks), BLOCK_HEADER)
      [] kind = "logs" ->
             write_csv(format_logs(ExportedItems(a, b).logs), LOGS_HEADER)
\* the range of the run, rounded to files
RunStart == RoundedStart(xstart_block, xargs.file_batch_size)
RunEnd == RoundedEnd(xend_block, xargs.file_batch_size)
\* the windows extracted so far follow each other from the start of the
\* range, each of batch_size blocks and within one file's range
WindowsTile ==
    \A k \in DOMAIN xwindows :
        /\ xwindows[k][1] = RunStart + (k - 1) * xargs.batch_size
        /\ xwindows[k][2] = xwindows[k][1] + xargs.batch_size - 1
        /\ xwindows[k][2] <= RunEnd
        /\ xwindows[k][1] \div xargs.file_batch_size
              = xwindows[k][2] \div xargs.file_batch_size
\* a file written by the step is one of the four files of a range
\* [a, a + file_batch_size - 1], a a multiple of file_batch_size, in the
\* directory of its partition, and holds the records of the ids of the range
FilesWrittenAreWhole ==
    \A f \in xfiles' \ xfiles :
        /\ f.block_range[1] % xargs.file_batch_size = 0
        /\ f.block_range[2] = f.block_range[1] + xargs.file_batch_size - 1
        /\ RunStart <= f.block_range[1]
        /\ f.block_range[2] <= RunEnd
        /\ f.sub_dir = SubDir(f.block_range[1], xargs.partition_batch_size)
        /\ f.lines = LinesOf(f.kind, f.block_range[1], f.block_range[2])
\* the four files of every range of the run are there, with the records of
\* the range
AllWritten ==
    \A a \in RunStart..RunEnd :
        a % xargs.file_batch_size = 0 =>
            \A k \in DOMAIN FileKinds :
                CsvFile(SubDir(a, xargs.partition_batch_size), FileKinds[k],
                        <<a, a + xargs.file_batch_size - 1>>,
                        LinesOf(FileKinds[k], a,
                                a + xargs.file_batch_size - 1)) \in xfiles
\* the run has ended after extracting a window
EndedAfterWindows == xexit_code # None /\ xwindows # <<>>

\* C31 as stated: with batch sizes that pass the checks, the windows tile
\* [rounded_start, rounded_end] with rounded_end <= end_block, no window
\* crosses a file boundary, each flush writes the four files of a range
\* [a, a + file_batch_size - 1], a a multiple of file_batch_size, with the
\* records of the ids of that range, and after the last window the four
\* buffers are empty.
C31_WindowsTileFiles ==
    SizesPass(xargs) =>
        /\ xpc # "main" => (WindowsTile /\ RunEnd <= xend_block)
        /\ EndedAfterWindows =>
              /\ BuffersEmpty
              /\ xwindows[Len(xwindows)][2] = RunEnd
              /\ AllWritten

\* C31, amended: the same for sizes that pass the checks and are positive,
\* every file written being whole; a partition batch size of 0 passes the
\* checks, and the run then ends at its first flush with a non-zero code,
\* no file written and the records of the first range still in the buffers.
C31_PositiveSizesTileFiles ==
    /\ [](SizesPositive(xargs) =>
            /\ xpc # "main" => (WindowsTile /\ RunEnd <= xend_block)
            /\ EndedAfterWindows =>
                  /\ xpc = "done"
                  /\ BuffersEmpty
                  /\ xwindows[Len(xwindows)][2] = RunEnd
                  /\ AllWritten)
    /\ [][SizesPositive(xargs) => FilesWrittenAreWhole]_vars
    /\ []((SizesPass(xargs) /\ xargs.partition_batch_size = 0) =>
            /\ xpc # "done"
            /\ EndedAfterWindows =>
                  /\ xexit_code = 1
                  /\ ~BuffersEmpty
                  /\ Len(xwindows) * xargs.batch_size = xargs.file_batch_size)
    /\ [][(SizesPass(xargs) /\ xargs.partition_batch_size = 0) =>
             xfiles' = xfiles]_vars

\* a run with two windows to the file has written the files of two ranges
C31_Witness ==
    /\ xpc = "done"
    /\ SizesPositive(xargs)
    /\ xargs.file_batch_size = 2 * xargs.batch_size
    /\ Len(xwindows) = 4
    /\ BuffersEmpty
    /\ AllWritten


(* ---- C32 ---- *)

\* the file of the kind given for the range and directory of file f is there
HasFile(f, kind) ==
    \E g \in xfiles : /\ g.kind = kind
                      /\ g.sub_dir = f.sub_dir
                      /\ g.block_range = f.block_range

\* C32: also after a crash at any point of a flush and a restart with
\* --continue, once the restarted run has completed every range that has a
\* block file has its trace, tx and logs files too.
C32_BlockFileImpliesOthers ==
    xpc = "done" =>
        \A f \in xfiles :
            f.kind = "block" =>
                (HasFile(f, "trace") /\ HasFile(f, "tx") /\ HasFile(f, "logs"))


(* ---- C33 ---- *)

\* a receipt entry comes before a transaction entry in the list
ReceiptBeforeTransaction(s) ==
    \E j, k \in DOMAIN s :
        j < k /\ s[j].table = "receipt" /\ s[k].table = "transaction"
\* the receipts are imported before the transactions
ReceiptsImportedFirst ==
    \E j, k \in DOMAIN imports :
        j < k /\ imports[j][1] = "receipt" /\ imports[k][1] = "transaction"

\* C33: with -t, a list in which a receipt entry comes before a transaction
\* entry is rejected with an error before any import, so that transactions
\* are always imported before receipts; a list of entries table:start-end
\* without that inversion is accepted.
C33_ReceiptAfterTransaction ==
    (~iargs.until_date /\ ipc \notin {"idle", "main"}) =>
        /\ ReceiptBeforeTransaction(iargs.table_specific) =>
              (ipc = "aborted" /\ imports = <<>>)
        /\ ~ReceiptsImportedFirst
        /\ (/\ ~ReceiptBeforeTransaction(iargs.table_specific)
            /\ ~SplitRaises(iargs.table_specific)
            /\ ipc = "aborted") => imports # <<>>


(* ---- C34 ---- *)

\* the receipt import of the entry at index k has been made
ReceiptImportDone(k) ==
    /\ k \in DOMAIN tables_to_fill
    /\ tables_to_fill[k][1] = "receipt"
    /\ k < inext
\* the hashes of the trace table for the blocks a..b
TraceHashes(a, b) ==
    {r.transaction_hash :
        r \in {t \in ikeyspace["trace"] : /\ a <= t.block_id
                                          /\ t.block_id <= b
                                          /\ t.transaction_hash # Null}}

\* C34: import_receipts(table, start_block, end_block) requests the receipt
\* of every transaction hash stored in the trace table with block_id in
\* [start_block, end_block]: the sub-ranges cover the whole interval, also
\* when start_block = end_block or start_block is not a multiple of the
\* bucket size, and each is queried in every group that holds one of its ids.
C34_ReceiptsCoverRange ==
    \A k \in DOMAIN tables_to_fill :
        ReceiptImportDone(k) =>
            TraceHashes(tables_to_fill[k][2], tables_to_fill[k][3])
                \subseteq requested

(* ---- C35 ---- *)

\* the highest block number of the highest group of the block table
LatestOf(T) ==
    LET g == Max({r.block_id_group : r \in T})
    IN  Max({r.number : r \in {q \in T : q.block_id_group = g}})

\* C35: with -u, latest_block_ingested returns 0 when the block table is
\* empty and otherwise the highest block number of the highest
\* block_id_group, and that value is the start block of the four tables
\* block, transaction, trace, receipt, which are imported in that order.
C35_UpdateStartsAtLatest ==
    /\ [][(iargs.until_date /\ ipc = "main" /\ ipc' # "main") =>
            LET s == IF ikeyspace["block"] = {} THEN 0
                     ELSE LatestOf(ikeyspace["block"])
                e == latest_block_available_before
            IN  /\ ipc' = "import"
                /\ tables_to_fill' =
                      <<<<"block", s, e>>, <<"transaction", s, e>>,
                        <<"trace", s, e>>, <<"receipt", s, e>>>>]_vars
    /\ [](iargs.until_date =>
            \A k \in DOMAIN imports : imports[k] = tables_to_fill[k])

====
